---------------------------- MODULE Spec2Model ----------------------------
(***************************************************************************)
(* A model of the robots.txt parser and matcher of robotstxt.go.           *)
(*                                                                         *)
(* A Go string is a sequence of bytes, and so is a string of the model:    *)
(* one element for each byte.  A printable ASCII byte is written as its    *)
(* character, the double quote and the backquote as "\\x22" and "\\x60",     *)
(* tab, newline, form feed and carriage return as the escapes of TLA+, and  *)
(* every other byte as "\\xHH".  A character that is not ASCII is the       *)
(* bytes of its UTF-8 encoding.                                             *)
(***************************************************************************)
EXTENDS Integers, Sequences, FiniteSets, TLC

VARIABLES
    contents,    \* Parse argument: the robots.txt text
    urlStr,      \* Parse argument: the URL the text was fetched from
    pc,          \* position of the caller: start, lines (in the loop of Parse),
                 \* failed, parsed (Parse returned), called (one method was called)
    lines,       \* strings.Split(contents, "\n"), the loop's range
    idx,         \* index of the next line the loop of Parse handles
    userAgents,  \* local of Parse: the active user-agent list
    isNoneUserAgentState, \* local of Parse: last directive was not user-agent
    robotsTxt,   \* the RobotsTxt struct: url, groups, sitemaps, host
    res          \* the last call made on the parsed value and what it returned

vars == <<contents, urlStr, pc, lines, idx, userAgents, isNoneUserAgentState,
          robotsTxt, res>>

-----------------------------------------------------------------------------
(* Characters.  A Go string is a sequence of bytes; the model writes the   *)
(* sequence with one element for each byte.                                 *)

\* the 256 bytes in the order of their values, as the model writes them
Bytes == <<"\\x00","\\x01","\\x02","\\x03","\\x04","\\x05","\\x06","\\x07","\\x08","\t","\n","\\x0B","\f","\r","\\x0E","\\x0F",
          "\\x10","\\x11","\\x12","\\x13","\\x14","\\x15","\\x16","\\x17","\\x18","\\x19","\\x1A","\\x1B","\\x1C","\\x1D","\\x1E","\\x1F",
          " ","!","\\x22","#","$","%","&","'","(",")","*","+",",","-",".","/",
          "0","1","2","3","4","5","6","7","8","9",":",";","<","=",">","?",
          "@","A","B","C","D","E","F","G","H","I","J","K","L","M","N","O",
          "P","Q","R","S","T","U","V","W","X","Y","Z","[","\\","]","^","_",
          "\\x60","a","b","c","d","e","f","g","h","i","j","k","l","m","n","o",
          "p","q","r","s","t","u","v","w","x","y","z","{","|","}","~","\\x7F",
          "\\x80","\\x81","\\x82","\\x83","\\x84","\\x85","\\x86","\\x87","\\x88","\\x89","\\x8A","\\x8B","\\x8C","\\x8D","\\x8E","\\x8F",
          "\\x90","\\x91","\\x92","\\x93","\\x94","\\x95","\\x96","\\x97","\\x98","\\x99","\\x9A","\\x9B","\\x9C","\\x9D","\\x9E","\\x9F",
          "\\xA0","\\xA1","\\xA2","\\xA3","\\xA4","\\xA5","\\xA6","\\xA7","\\xA8","\\xA9","\\xAA","\\xAB","\\xAC","\\xAD","\\xAE","\\xAF",
          "\\xB0","\\xB1","\\xB2","\\xB3","\\xB4","\\xB5","\\xB6","\\xB7","\\xB8","\\xB9","\\xBA","\\xBB","\\xBC","\\xBD","\\xBE","\\xBF",
          "\\xC0","\\xC1","\\xC2","\\xC3","\\xC4","\\xC5","\\xC6","\\xC7","\\xC8","\\xC9","\\xCA","\\xCB","\\xCC","\\xCD","\\xCE","\\xCF",
          "\\xD0","\\xD1","\\xD2","\\xD3","\\xD4","\\xD5","\\xD6","\\xD7","\\xD8","\\xD9","\\xDA","\\xDB","\\xDC","\\xDD","\\xDE","\\xDF",
          "\\xE0","\\xE1","\\xE2","\\xE3","\\xE4","\\xE5","\\xE6","\\xE7","\\xE8","\\xE9","\\xEA","\\xEB","\\xEC","\\xED","\\xEE","\\xEF",
          "\\xF0","\\xF1","\\xF2","\\xF3","\\xF4","\\xF5","\\xF6","\\xF7","\\xF8","\\xF9","\\xFA","\\xFB","\\xFC","\\xFD","\\xFE","\\xFF">>

\* the value of a byte
ByteOf == [c \in {Bytes[n] : n \in 1..256} |-> (CHOOSE n \in 1..256 : Bytes[n] = c) - 1]

\* the byte with the given value
ByteChar(n) == Bytes[n + 1]

DigitChars == <<"0","1","2","3","4","5","6","7","8","9">>
HexDigits == <<"0","1","2","3","4","5","6","7","8","9","A","B","C","D","E","F">>

IndexIn(seq, c) ==
    IF \E i \in 1..Len(seq) : seq[i] = c
    THEN CHOOSE i \in 1..Len(seq) : seq[i] = c /\ \A j \in 1..(i-1) : seq[j] # c
    ELSE 0

\* the tables as functions of the character
HexOf == [c \in {HexDigits[i] : i \in 1..Len(HexDigits)} \cup {"a","b","c","d","e","f"} |->
               IF IndexIn(HexDigits, c) > 0 THEN IndexIn(HexDigits, c) - 1
               ELSE IndexIn(<<"a","b","c","d","e","f">>, c) + 9]
DigitOf == [c \in {DigitChars[i] : i \in 1..Len(DigitChars)} |-> IndexIn(DigitChars, c) - 1]
LetterSet == {c \in DOMAIN ByteOf :
                 (ByteOf[c] >= 65 /\ ByteOf[c] <= 90) \/ (ByteOf[c] >= 97 /\ ByteOf[c] <= 122)}

\* net/url ishex
IsHex(c) == c \in DOMAIN HexOf

\* net/url unhex
UnHex(c) == HexOf[c]

\* c < utf8.RuneSelf
IsAsciiChar(c) == ByteOf[c] < 128

-----------------------------------------------------------------------------
(* package unicode/utf8 *)

RuneError == 65533
MaxRune == 1114111

\* the byte at position i of s is there and its value lies in lo..hi
ByteIn(s, i, lo, hi) == i <= Len(s) /\ ByteOf[s[i]] >= lo /\ ByteOf[s[i]] <= hi

\* the six low bits of the continuation byte at position i
Cont(s, i) == ByteOf[s[i]] - 128

\* utf8.DecodeRuneInString(s[i-1:]), for b0 the value of the first byte: the
\* rune and its width; bytes that are no encoding give RuneError, width 1
DecodeFirst(s, i, b0) ==
    IF b0 < 128 THEN [r |-> b0, size |-> 1]
    ELSE IF /\ b0 >= 194 /\ b0 <= 223
            /\ ByteIn(s, i + 1, 128, 191)
         THEN [r |-> (b0 - 192) * 64 + Cont(s, i + 1), size |-> 2]
    ELSE IF /\ b0 >= 224 /\ b0 <= 239
            /\ ByteIn(s, i + 1, IF b0 = 224 THEN 160 ELSE 128, IF b0 = 237 THEN 159 ELSE 191)
            /\ ByteIn(s, i + 2, 128, 191)
         THEN [r |-> (b0 - 224) * 4096 + Cont(s, i + 1) * 64 + Cont(s, i + 2), size |-> 3]
    ELSE IF /\ b0 >= 240 /\ b0 <= 244
            /\ ByteIn(s, i + 1, IF b0 = 240 THEN 144 ELSE 128, IF b0 = 244 THEN 143 ELSE 191)
            /\ ByteIn(s, i + 2, 128, 191)
            /\ ByteIn(s, i + 3, 128, 191)
         THEN [r |-> (b0 - 240) * 262144 + Cont(s, i + 1) * 4096
                     + Cont(s, i + 2) * 64 + Cont(s, i + 3),
               size |-> 4]
    ELSE [r |-> RuneError, size |-> 1]

\* utf8.DecodeRuneInString on s from position i, i <= Len(s)
DecodeRune(s, i) == DecodeFirst(s, i, ByteOf[s[i]])

\* utf8.RuneStart
RuneStart(c) == ByteOf[c] < 128 \/ ByteOf[c] > 191

\* where utf8.DecodeLastRuneInString starts to decode: at the last byte
\* that can start a rune among the three before the last one, else at the
\* fourth byte from the end
LastRuneStart(s) ==
    LET lim == IF Len(s) > 4 THEN Len(s) - 3 ELSE 1
        starts == {p \in lim..(Len(s) - 1) : RuneStart(s[p])}
    IN  IF starts = {} THEN lim ELSE CHOOSE p \in starts : \A q \in starts : q <= p

\* the rune decoded from start on is the last one when it ends with s
LastRuneFrom(s, start, d) ==
    IF start - 1 + d.size = Len(s) THEN d ELSE [r |-> RuneError, size |-> 1]

\* utf8.DecodeLastRuneInString, s not empty
DecodeLastRune(s) ==
    IF ByteOf[s[Len(s)]] < 128 THEN [r |-> ByteOf[s[Len(s)]], size |-> 1]
    ELSE LastRuneFrom(s, LastRuneStart(s), DecodeRune(s, LastRuneStart(s)))

\* utf8.AppendRune: the bytes of the encoding of r, of RuneError for a
\* surrogate or a value out of range
EncodeRune(r) ==
    IF r >= 0 /\ r < 128 THEN <<ByteChar(r)>>
    ELSE IF r >= 128 /\ r < 2048
         THEN <<ByteChar(192 + (r \div 64)), ByteChar(128 + (r % 64))>>
    ELSE IF r < 0 \/ r > MaxRune \/ (r >= 55296 /\ r <= 57343)
         THEN <<ByteChar(239), ByteChar(191), ByteChar(189)>>
    ELSE IF r < 65536
         THEN <<ByteChar(224 + (r \div 4096)), ByteChar(128 + ((r \div 64) % 64)),
                ByteChar(128 + (r % 64))>>
    ELSE <<ByteChar(240 + (r \div 262144)), ByteChar(128 + ((r \div 4096) % 64)),
           ByteChar(128 + ((r \div 64) % 64)), ByteChar(128 + (r % 64))>>

\* the runes of for _, r := range s, from position i on
RECURSIVE RunesFrom(_, _)
RunesFrom(s, i) ==
    IF i > Len(s) THEN <<>>
    ELSE <<DecodeRune(s, i).r>> \o RunesFrom(s, i + DecodeRune(s, i).size)

Runes(s) == RunesFrom(s, 1)

\* utf8.ValidString
RECURSIVE ValidFrom(_, _)
ValidFrom(s, i) ==
    IF i > Len(s) THEN TRUE
    ELSE /\ ~(DecodeRune(s, i).r = RuneError /\ DecodeRune(s, i).size = 1)
         /\ ValidFrom(s, i + DecodeRune(s, i).size)

ValidString(s) == ValidFrom(s, 1)

-----------------------------------------------------------------------------
(* package unicode *)

\* unicode.CaseRanges, the lower-case column, above ASCII (Unicode 14): in
\* each entry <<lo, hi, stride, delta>> the runes lo, lo + stride, ..., hi
\* have the lower-case form rune + delta
LowerRanges ==
    <<<<192,214,1,32>>, <<216,222,1,32>>, <<256,302,2,1>>, <<304,304,1,-199>>,
    <<306,310,2,1>>, <<313,327,2,1>>, <<330,374,2,1>>, <<376,376,1,-121>>,
    <<377,381,2,1>>, <<385,385,1,210>>, <<386,388,2,1>>, <<390,390,1,206>>,
    <<391,391,1,1>>, <<393,394,1,205>>, <<395,395,1,1>>, <<398,398,1,79>>,
    <<399,399,1,202>>, <<400,400,1,203>>, <<401,401,1,1>>, <<403,403,1,205>>,
    <<404,404,1,207>>, <<406,406,1,211>>, <<407,407,1,209>>, <<408,408,1,1>>,
    <<412,412,1,211>>, <<413,413,1,213>>, <<415,415,1,214>>, <<416,420,2,1>>,
    <<422,422,1,218>>, <<423,423,1,1>>, <<425,425,1,218>>, <<428,428,1,1>>,
    <<430,430,1,218>>, <<431,431,1,1>>, <<433,434,1,217>>, <<435,437,2,1>>,
    <<439,439,1,219>>, <<440,440,1,1>>, <<444,444,1,1>>, <<452,452,1,2>>,
    <<453,453,1,1>>, <<455,455,1,2>>, <<456,456,1,1>>, <<458,458,1,2>>,
    <<459,475,2,1>>, <<478,494,2,1>>, <<497,497,1,2>>, <<498,500,2,1>>,
    <<502,502,1,-97>>, <<503,503,1,-56>>, <<504,542,2,1>>,
    <<544,544,1,-130>>, <<546,562,2,1>>, <<570,570,1,10795>>,
    <<571,571,1,1>>, <<573,573,1,-163>>, <<574,574,1,10792>>,
    <<577,577,1,1>>, <<579,579,1,-195>>, <<580,580,1,69>>, <<581,581,1,71>>,
    <<582,590,2,1>>, <<880,882,2,1>>, <<886,886,1,1>>, <<895,895,1,116>>,
    <<902,902,1,38>>, <<904,906,1,37>>, <<908,908,1,64>>, <<910,911,1,63>>,
    <<913,929,1,32>>, <<931,939,1,32>>, <<975,975,1,8>>, <<984,1006,2,1>>,
    <<1012,1012,1,-60>>, <<1015,1015,1,1>>, <<1017,1017,1,-7>>,
    <<1018,1018,1,1>>, <<1021,1023,1,-130>>, <<1024,1039,1,80>>,
    <<1040,1071,1,32>>, <<1120,1152,2,1>>, <<1162,1214,2,1>>,
    <<1216,1216,1,15>>, <<1217,1229,2,1>>, <<1232,1326,2,1>>,
    <<1329,1366,1,48>>, <<4256,4293,1,7264>>, <<4295,4295,1,7264>>,
    <<4301,4301,1,7264>>, <<5024,5103,1,38864>>, <<5104,5109,1,8>>,
    <<7312,7354,1,-3008>>, <<7357,7359,1,-3008>>, <<7680,7828,2,1>>,
    <<7838,7838,1,-7615>>, <<7840,7934,2,1>>, <<7944,7951,1,-8>>,
    <<7960,7965,1,-8>>, <<7976,7983,1,-8>>, <<7992,7999,1,-8>>,
    <<8008,8013,1,-8>>, <<8025,8031,2,-8>>, <<8040,8047,1,-8>>,
    <<8072,8079,1,-8>>, <<8088,8095,1,-8>>, <<8104,8111,1,-8>>,
    <<8120,8121,1,-8>>, <<8122,8123,1,-74>>, <<8124,8124,1,-9>>,
    <<8136,8139,1,-86>>, <<8140,8140,1,-9>>, <<8152,8153,1,-8>>,
    <<8154,8155,1,-100>>, <<8168,8169,1,-8>>, <<8170,8171,1,-112>>,
    <<8172,8172,1,-7>>, <<8184,8185,1,-128>>, <<8186,8187,1,-126>>,
    <<8188,8188,1,-9>>, <<8486,8486,1,-7517>>, <<8490,8490,1,-8383>>,
    <<8491,8491,1,-8262>>, <<8498,8498,1,28>>, <<8544,8559,1,16>>,
    <<8579,8579,1,1>>, <<9398,9423,1,26>>, <<11264,11311,1,48>>,
    <<11360,11360,1,1>>, <<11362,11362,1,-10743>>, <<11363,11363,1,-3814>>,
    <<11364,11364,1,-10727>>, <<11367,11371,2,1>>, <<11373,11373,1,-10780>>,
    <<11374,11374,1,-10749>>, <<11375,11375,1,-10783>>,
    <<11376,11376,1,-10782>>, <<11378,11378,1,1>>, <<11381,11381,1,1>>,
    <<11390,11391,1,-10815>>, <<11392,11490,2,1>>, <<11499,11501,2,1>>,
    <<11506,11506,1,1>>, <<42560,42604,2,1>>, <<42624,42650,2,1>>,
    <<42786,42798,2,1>>, <<42802,42862,2,1>>, <<42873,42875,2,1>>,
    <<42877,42877,1,-35332>>, <<42878,42886,2,1>>, <<42891,42891,1,1>>,
    <<42893,42893,1,-42280>>, <<42896,42898,2,1>>, <<42902,42920,2,1>>,
    <<42922,42922,1,-42308>>, <<42923,42923,1,-42319>>,
    <<42924,42924,1,-42315>>, <<42925,42925,1,-42305>>,
    <<42926,42926,1,-42308>>, <<42928,42928,1,-42258>>,
    <<42929,42929,1,-42282>>, <<42930,42930,1,-42261>>,
    <<42931,42931,1,928>>, <<42932,42946,2,1>>, <<42948,42948,1,-48>>,
    <<42949,42949,1,-42307>>, <<42950,42950,1,-35384>>, <<42951,42953,2,1>>,
    <<42960,42960,1,1>>, <<42966,42968,2,1>>, <<42997,42997,1,1>>,
    <<65313,65338,1,32>>, <<66560,66599,1,40>>, <<66736,66771,1,40>>,
    <<66928,66938,1,39>>, <<66940,66954,1,39>>, <<66956,66962,1,39>>,
    <<66964,66965,1,39>>, <<68736,68786,1,64>>, <<71840,71871,1,32>>,
    <<93760,93791,1,32>>, <<125184,125217,1,34>>>>

\* the entries of LowerRanges that hold r
LowerEntries(r) ==
    {k \in 1..Len(LowerRanges) :
        /\ r >= LowerRanges[k][1]
        /\ r <= LowerRanges[k][2]
        /\ (r - LowerRanges[k][1]) % LowerRanges[k][3] = 0}

\* unicode.ToLower
ToLowerChar(r) ==
    IF r < 128 THEN (IF r >= 65 /\ r <= 90 THEN r + 32 ELSE r)
    ELSE IF LowerEntries(r) = {} THEN r
    ELSE r + LowerRanges[CHOOSE k \in LowerEntries(r) : TRUE][4]

\* unicode.IsSpace
WhiteSpace == {9, 10, 11, 12, 13, 32, 133, 160, 5760, 8232, 8233, 8239, 8287, 12288}
                 \cup (8192..8202)

IsSpace(r) == r \in WhiteSpace

-----------------------------------------------------------------------------
(* package strings *)

HasPrefix(s, prefix) ==
    /\ Len(s) >= Len(prefix)
    /\ SubSeq(s, 1, Len(prefix)) = prefix

HasSuffix(s, suffix) ==
    /\ Len(s) >= Len(suffix)
    /\ SubSeq(s, Len(s) - Len(suffix) + 1, Len(s)) = suffix

\* strings.Index: position (from 1) of the first occurrence, 0 if none
Index(s, sub) ==
    LET hits == {i \in 1..(Len(s) - Len(sub) + 1) : SubSeq(s, i, i + Len(sub) - 1) = sub}
    IN  IF hits = {} THEN 0 ELSE CHOOSE i \in hits : \A j \in hits : i <= j

\* strings.IndexRune(s, c) > -1, c an ASCII character
Contains(s, c) == \E i \in 1..Len(s) : s[i] = c

\* strings.Replace(s, old, new, -1), old not empty
RECURSIVE Replace(_, _, _)
Replace(s, old, new) ==
    LET i == Index(s, old)
    IN  IF i = 0 THEN s
        ELSE SubSeq(s, 1, i - 1) \o new
             \o Replace(SubSeq(s, i + Len(old), Len(s)), old, new)

\* strings.TrimLeftFunc(s, unicode.IsSpace)
RECURSIVE TrimLeft(_)
TrimLeft(s) ==
    IF s # <<>> /\ IsSpace(DecodeRune(s, 1).r)
    THEN TrimLeft(SubSeq(s, 1 + DecodeRune(s, 1).size, Len(s)))
    ELSE s

\* strings.TrimRightFunc(s, unicode.IsSpace)
RECURSIVE TrimRight(_)
TrimRight(s) ==
    IF s # <<>> /\ IsSpace(DecodeLastRune(s).r)
    THEN TrimRight(SubSeq(s, 1, Len(s) - DecodeLastRune(s).size))
    ELSE s

\* strings.TrimSpace as it would be if it trimmed nothing
TrimSpace_Not(s) == s

TrimSpace(s) == TrimRight(TrimLeft(s))

\* strings.ToLower: strings.Map(unicode.ToLower, s), which writes every rune
\* anew, bytes that are no encoding as RuneError
RECURSIVE ToLowerFrom(_, _)
ToLowerFrom(s, i) ==
    IF i > Len(s) THEN <<>>
    ELSE EncodeRune(ToLowerChar(DecodeRune(s, i).r))
         \o ToLowerFrom(s, i + DecodeRune(s, i).size)

ToLower(s) == ToLowerFrom(s, 1)

\* strings.Split(s, sep) for a one-character separator
RECURSIVE Split(_, _)
Split(s, sep) ==
    LET i == Index(s, <<sep>>)
    IN  IF i = 0 THEN <<s>>
        ELSE <<SubSeq(s, 1, i - 1)>> \o Split(SubSeq(s, i + 1, Len(s)), sep)

\* the split as it would be without the limit of two parts
SplitN2_AtEverySeparator(s, sep) == Split(s, sep)

\* strings.SplitN(s, sep, 2) for a one-character separator
SplitN2(s, sep) ==
    LET i == Index(s, <<sep>>)
    IN  IF i = 0 THEN <<s>>
        ELSE <<SubSeq(s, 1, i - 1), SubSeq(s, i + 1, Len(s))>>

\* strings.LastIndex for a one-character separator, 0 if none
LastIndexOf(s, c) ==
    LET hits == {i \in 1..Len(s) : s[i] = c}
    IN  IF hits = {} THEN 0 ELSE CHOOSE i \in hits : \A j \in hits : j <= i

\* strings.Join
RECURSIVE JoinWith(_, _)
JoinWith(parts, sep) ==
    IF Len(parts) = 0 THEN <<>>
    ELSE IF Len(parts) = 1 THEN parts[1]
    ELSE parts[1] \o <<sep>> \o JoinWith(Tail(parts), sep)

\* strings.Cut: what precedes the first c, or all of s when there is none
CutBefore(s, c) ==
    IF Index(s, <<c>>) = 0 THEN s ELSE SubSeq(s, 1, Index(s, <<c>>) - 1)

\* what starts at the first c, or nothing when there is none
CutFrom(s, c) ==
    IF Index(s, <<c>>) = 0 THEN <<>> ELSE SubSeq(s, Index(s, <<c>>), Len(s))

\* strings.Cut: what follows the first c, nothing when there is none
CutAfter(s, c) ==
    IF Index(s, <<c>>) = 0 THEN <<>> ELSE SubSeq(s, Index(s, <<c>>) + 1, Len(s))

-----------------------------------------------------------------------------
(* package net/url *)

IsLetter(c) == c \in LetterSet
IsDigit(c) == c \in DOMAIN DigitOf

\* the ASCII bytes url.shouldEscape(c, encodeHost) lets stand in a host:
\* letters, digits, the sub-delimiters, the colon, the brackets, the angle
\* brackets, the double quote and the unreserved marks
HostAllowed ==
    LetterSet \cup DOMAIN DigitOf
    \cup {"!", "$", "&", "'", "(", ")", "*", "+", ",", ";", "=", ":", "[", "]",
          "<", ">", "\\x22", "-", "_", ".", "~"}

\* the ASCII bytes url.parseHost refuses in a host name
HostForbidden == {c \in DOMAIN ByteOf : ByteOf[c] < 128 /\ c \notin HostAllowed /\ c # "%"}

\* the escape at position i of s is followed by two hexadecimal digits
EscapeAt(s, i) == i + 2 <= Len(s) /\ IsHex(s[i + 1]) /\ IsHex(s[i + 2])

\* the byte an escape stands for
EscapedByte(s, i) == UnHex(s[i + 1]) * 16 + UnHex(s[i + 2])

\* the first loop of url.unescape: no error from position i on.  The modes
\* are those of the encoding argument: in a host only bytes above ASCII and
\* the percent sign may be escaped, in a zone only what a host may hold as
\* it is, and a host or zone may hold no byte of HostForbidden
RECURSIVE unescapeOK(_, _, _)
unescapeOK(s, i, mode) ==
    IF i > Len(s) THEN TRUE
    ELSE IF s[i] = "%"
         THEN /\ EscapeAt(s, i)
              /\ mode = "encodeHost" =>
                    UnHex(s[i + 1]) >= 8 \/ SubSeq(s, i, i + 2) = <<"%", "2", "5">>
              /\ mode = "encodeZone" =>
                    \/ SubSeq(s, i, i + 2) = <<"%", "2", "5">>
                    \/ EscapedByte(s, i) = 32
                    \/ ByteChar(EscapedByte(s, i)) \in HostAllowed
              /\ unescapeOK(s, i + 3, mode)
    ELSE /\ mode \in {"encodeHost", "encodeZone"} => s[i] \notin HostForbidden
         /\ unescapeOK(s, i + 1, mode)

\* the second loop of url.unescape: every escape replaced by its byte
RECURSIVE DecodeEscapes(_)
DecodeEscapes(s) ==
    IF s = <<>> THEN <<>>
    ELSE IF s[1] = "%"
         THEN <<ByteChar(EscapedByte(s, 1))>> \o DecodeEscapes(SubSeq(s, 4, Len(s)))
         ELSE <<s[1]>> \o DecodeEscapes(Tail(s))

\* url.unescape in the modes that leave the plus sign alone
unescape(s, mode) ==
    IF unescapeOK(s, 1, mode)
    THEN [err |-> FALSE, str |-> DecodeEscapes(s)]
    ELSE [err |-> TRUE, str |-> <<>>]

\* every % of s is followed by two hexadecimal digits
EscapesWellFormed(s) == unescapeOK(s, 1, "encodePathSegment")

\* url.PathUnescape: err is TRUE for a malformed escape
PathUnescape(s) == unescape(s, "encodePathSegment")

\* url.getScheme: the scheme, the rest, and whether the scheme is missing
RECURSIVE getSchemeFrom(_, _)
getSchemeFrom(rawurl, i) ==
    IF i > Len(rawurl) THEN [err |-> FALSE, scheme |-> <<>>, rest |-> rawurl]
    ELSE LET c == rawurl[i] IN
         IF IsLetter(c) THEN getSchemeFrom(rawurl, i + 1)
         ELSE IF IsDigit(c) \/ c \in {"+", "-", "."}
              THEN IF i = 1 THEN [err |-> FALSE, scheme |-> <<>>, rest |-> rawurl]
                   ELSE getSchemeFrom(rawurl, i + 1)
         ELSE IF c = ":"
              THEN IF i = 1 THEN [err |-> TRUE, scheme |-> <<>>, rest |-> <<>>]
                   ELSE [err |-> FALSE, scheme |-> SubSeq(rawurl, 1, i - 1),
                         rest |-> SubSeq(rawurl, i + 1, Len(rawurl))]
         ELSE [err |-> FALSE, scheme |-> <<>>, rest |-> rawurl]

getScheme(rawurl) == getSchemeFrom(rawurl, 1)

\* url.validOptionalPort: nothing, or a colon and digits
validOptionalPort(port) ==
    port = <<>> \/ (port[1] = ":" /\ \A j \in 2..Len(port) : IsDigit(port[j]))

\* the port test of url.parseHost as it would be if it accepted every port
ValidHostPort_Always(host) == TRUE

\* the port test of url.parseHost: of a host in brackets what follows the
\* last closing bracket, which must be there, else what starts at the last
\* colon
ValidHostPort(host) ==
    IF HasPrefix(host, <<"[">>)
    THEN /\ LastIndexOf(host, "]") > 0
         /\ validOptionalPort(SubSeq(host, LastIndexOf(host, "]") + 1, Len(host)))
    ELSE \/ LastIndexOf(host, ":") = 0
         \/ validOptionalPort(SubSeq(host, LastIndexOf(host, ":"), Len(host)))

\* the three parts of a host in brackets with a zone, each unescaped in its mode
unescapeZoned(host1, host2, host3) ==
    IF host1.err \/ host2.err \/ host3.err THEN [err |-> TRUE, str |-> <<>>]
    ELSE [err |-> FALSE, str |-> host1.str \o host2.str \o host3.str]

\* url.parseHost after the port test; zone and close are the positions of
\* the first %25 before the last closing bracket and of that bracket
unescapeHost(host, zone, close) ==
    IF HasPrefix(host, <<"[">>) /\ zone > 0
    THEN unescapeZoned(unescape(SubSeq(host, 1, zone - 1), "encodeHost"),
                       unescape(SubSeq(host, zone, close - 1), "encodeZone"),
                       unescape(SubSeq(host, close, Len(host)), "encodeHost"))
    ELSE unescape(host, "encodeHost")

\* url.parseHost
parseHost(host) ==
    IF ~ValidHostPort(host) THEN [err |-> TRUE, str |-> <<>>]
    ELSE unescapeHost(host,
                      Index(SubSeq(host, 1, LastIndexOf(host, "]") - 1), <<"%", "2", "5">>),
                      LastIndexOf(host, "]"))

\* the ASCII characters url.validUserinfo accepts besides letters and digits
UserinfoMarks == {"-", ".", "_", ":", "~", "!", "$", "&", "'", "(", ")", "*", "+", ",",
                  ";", "=", "%", "@"}

\* url.validUserinfo
validUserinfo(s) ==
    \A i \in 1..Len(s) : IsLetter(s[i]) \/ IsDigit(s[i]) \/ s[i] \in UserinfoMarks

\* url.parseAuthority on the user information: it must be valid and the
\* user name and the password, parted at the first colon, must unescape
userinfoOK(userinfo) ==
    /\ validUserinfo(userinfo)
    /\ unescapeOK(CutBefore(userinfo, ":"), 1, "encodeUserPassword")
    /\ unescapeOK(CutAfter(userinfo, ":"), 1, "encodeUserPassword")

\* url.parseAuthority: the host after the last @, the user information before it
parseAuthority(authority) ==
    IF LastIndexOf(authority, "@") = 0 THEN parseHost(authority)
    ELSE IF ~userinfoOK(SubSeq(authority, 1, LastIndexOf(authority, "@") - 1))
         THEN [err |-> TRUE, str |-> <<>>]
    ELSE parseHost(SubSeq(authority, LastIndexOf(authority, "@") + 1, Len(authority)))

NoURL == [err |-> TRUE, Scheme |-> <<>>, Host |-> <<>>, Path |-> <<>>]

\* url.setPath: the path is unescaped, a malformed escape is an error
urlSetPath(scheme, host, path) ==
    IF path.err THEN NoURL
    ELSE [err |-> FALSE, Scheme |-> scheme, Host |-> host, Path |-> path.str]

\* url.parse after url.parseAuthority
urlParseHost(scheme, host, rawPath) ==
    IF host.err THEN NoURL
    ELSE urlSetPath(scheme, host.str, unescape(rawPath, "encodePath"))

\* url.parse at the authority: it ends at the first slash, the path starts there
urlParseAuthority(scheme, authority, rawPath) ==
    urlParseHost(scheme, parseAuthority(authority), rawPath)

\* url.parse after the scheme and the query are cut off: an opaque URL, a
\* colon in the first segment, an authority after a double slash (after a
\* triple slash only when there is a scheme), a path
urlParseRest(scheme, rest) ==
    IF ~HasPrefix(rest, <<"/">>) /\ scheme # <<>>
    THEN [err |-> FALSE, Scheme |-> scheme, Host |-> <<>>, Path |-> <<>>]
    ELSE IF ~HasPrefix(rest, <<"/">>) /\ Contains(CutBefore(rest, "/"), ":")
         THEN NoURL
    ELSE IF /\ scheme # <<>> \/ ~HasPrefix(rest, <<"/", "/", "/">>)
            /\ HasPrefix(rest, <<"/", "/">>)
         THEN urlParseAuthority(scheme,
                                CutBefore(SubSeq(rest, 3, Len(rest)), "/"),
                                CutFrom(SubSeq(rest, 3, Len(rest)), "/"))
    ELSE urlSetPath(scheme, <<>>, unescape(rest, "encodePath"))

\* url.parse after getScheme: the scheme is lowercased, the query is cut off
urlParseScheme(sch) ==
    IF sch.err THEN NoURL
    ELSE urlParseRest(ToLower(sch.scheme), CutBefore(sch.rest, "?"))

\* url.stringContainsCTLByte
stringContainsCTLByte(s) ==
    \E i \in 1..Len(s) : ByteOf[s[i]] < 32 \/ ByteOf[s[i]] = 127

\* url.parse(rawURL, false)
urlParseNoFragment(rawurl) ==
    IF stringContainsCTLByte(rawurl) THEN NoURL
    ELSE IF rawurl = <<"*">>
         THEN [err |-> FALSE, Scheme |-> <<>>, Host |-> <<>>, Path |-> <<"*">>]
    ELSE urlParseScheme(getScheme(rawurl))

\* url.Parse after url.parse: a fragment, when there is one, must unescape
urlSetFragment(u, frag) ==
    IF u.err \/ frag = <<>> THEN u
    ELSE IF unescapeOK(frag, 1, "encodeFragment") THEN u
    ELSE NoURL

\* url.Parse: the fragment is cut off at the first #
urlParse(rawurl) ==
    urlSetFragment(urlParseNoFragment(CutBefore(rawurl, "#")), CutAfter(rawurl, "#"))

-----------------------------------------------------------------------------
(* package golang.org/x/net/idna: ToASCII, the raw Punycode profile *)

MaxInt32 == 2147483647

PunyDigits == <<"a","b","c","d","e","f","g","h","i","j","k","l","m",
                "n","o","p","q","r","s","t","u","v","w","x","y","z",
                "0","1","2","3","4","5","6","7","8","9">>

PunyBase == 36
PunyTMin == 1
PunyTMax == 26
PunySkew == 38
PunyDamp == 700
PunyInitialBias == 72
PunyInitialN == 128

ACEPrefix == <<"x", "n", "-", "-">>

RECURSIVE PunyAdaptLoop(_, _)
PunyAdaptLoop(delta, k) ==
    IF delta > ((PunyBase - PunyTMin) * PunyTMax) \div 2
    THEN PunyAdaptLoop(delta \div (PunyBase - PunyTMin), k + PunyBase)
    ELSE k + ((PunyBase - PunyTMin + 1) * delta) \div (delta + PunySkew)

\* idna adapt
PunyAdapt(delta, numPoints, firstTime) ==
    LET d1 == IF firstTime THEN delta \div PunyDamp ELSE delta \div 2
    IN  PunyAdaptLoop(d1 + (d1 \div numPoints), 0)

\* the threshold of the digit at weight k
PunyT(k, bias) ==
    IF k <= bias THEN PunyTMin
    ELSE IF k >= bias + PunyTMax THEN PunyTMax ELSE k - bias

\* the variable-length integer of one delta
RECURSIVE PunyVarInt(_, _, _)
PunyVarInt(q, k, bias) ==
    LET t == PunyT(k, bias)
    IN  IF q < t THEN <<PunyDigits[q + 1]>>
        ELSE <<PunyDigits[t + ((q - t) % (PunyBase - t)) + 1]>>
             \o PunyVarInt((q - t) \div (PunyBase - t), k + PunyBase, bias)

\* idna madd: a + b * c overflows an int32
maddOverflows(a, b, c) == c > 0 /\ b > (MaxInt32 - a) \div c

\* the inner loop of idna encode, one pass over the runes of the label for
\* the code point n: a rune below n adds one to delta, which is an error
\* when delta overflows; a rune that is n is written as the digits of delta
RECURSIVE PunyScan(_, _, _, _, _)
PunyScan(label, i, n, b, st) ==
    IF i > Len(label) \/ st.err THEN st
    ELSE IF label[i] < n
         THEN IF st.delta = MaxInt32 THEN [st EXCEPT !.err = TRUE]
              ELSE PunyScan(label, i + 1, n, b, [st EXCEPT !.delta = @ + 1])
    ELSE IF label[i] > n THEN PunyScan(label, i + 1, n, b, st)
    ELSE PunyScan(label, i + 1, n, b,
                  [err |-> FALSE,
                   delta |-> 0,
                   bias |-> PunyAdapt(st.delta, st.h + 1, st.h = b),
                   h |-> st.h + 1,
                   out |-> st.out \o PunyVarInt(st.delta, PunyBase, st.bias)])

\* the end of a pass of idna encode: delta++
PunyEndPass(st) == IF st.err THEN st ELSE [st EXCEPT !.delta = @ + 1]

\* the outer loop of idna encode while runes remain: m is the least code
\* point from n on, delta grows by (m - n) * (h + 1), which is an error when
\* it overflows; after the pass for m, delta++ and n++
RECURSIVE PunyMain(_, _, _, _)
RECURSIVE PunyMainAt(_, _, _, _, _)
PunyMain(label, n, b, st) ==
    IF st.err THEN [err |-> TRUE, str |-> <<>>]
    ELSE IF st.h >= Len(label) THEN [err |-> FALSE, str |-> st.out]
    ELSE PunyMainAt(label, n, b, st,
                    CHOOSE x \in {label[i] : i \in 1..Len(label)} :
                        /\ x >= n
                        /\ \A i \in 1..Len(label) : label[i] >= n => x <= label[i])

PunyMainAt(label, n, b, st, m) ==
    IF maddOverflows(st.delta, m - n, st.h + 1) THEN [err |-> TRUE, str |-> <<>>]
    ELSE PunyMain(label, m + 1, b,
                  PunyEndPass(PunyScan(label, 1, m, b,
                                       [st EXCEPT !.delta = @ + (m - n) * (st.h + 1)])))

\* the bytes of the runes below 0x80, in their order
RECURSIVE BasicOf(_)
BasicOf(runes) ==
    IF runes = <<>> THEN <<>>
    ELSE (IF runes[1] < 128 THEN <<ByteChar(runes[1])>> ELSE <<>>) \o BasicOf(Tail(runes))

\* idna encode(acePrefix, s) on the runes of s with their basic bytes: the
\* string, or an error with the empty string
PunyEncodeRunes(runes, basic) ==
    PunyMain(runes, PunyInitialN, Len(basic),
             [err |-> FALSE, delta |-> 0, bias |-> PunyInitialBias, h |-> Len(basic),
              out |-> ACEPrefix \o basic \o (IF Len(basic) > 0 THEN <<"-">> ELSE <<>>)])

\* idna encode(acePrefix, label)
PunyEncode(label) == PunyEncodeRunes(Runes(label), BasicOf(Runes(label)))

\* idna decodeDigit: the value of a digit, 36 for a byte that is none
decodeDigit(c) ==
    IF ByteOf[c] >= 48 /\ ByteOf[c] <= 57 THEN ByteOf[c] - 48 + 26
    ELSE IF ByteOf[c] >= 65 /\ ByteOf[c] <= 90 THEN ByteOf[c] - 65
    ELSE IF ByteOf[c] >= 97 /\ ByteOf[c] <= 122 THEN ByteOf[c] - 97
    ELSE PunyBase

\* the inner loop of idna decode: the digits of one delta are read from
\* position pos on and added to i with growing weight w
RECURSIVE PunyReadDelta(_, _, _, _, _, _)
PunyReadDelta(encoded, pos, k, i, w, bias) ==
    IF pos > Len(encoded) \/ decodeDigit(encoded[pos]) = PunyBase
       \/ maddOverflows(i, decodeDigit(encoded[pos]), w)
    THEN [err |-> TRUE, pos |-> pos, i |-> i]
    ELSE IF decodeDigit(encoded[pos]) < PunyT(k, bias)
         THEN [err |-> FALSE, pos |-> pos + 1, i |-> i + decodeDigit(encoded[pos]) * w]
    ELSE IF maddOverflows(0, w, PunyBase - PunyT(k, bias))
         THEN [err |-> TRUE, pos |-> pos, i |-> i]
    ELSE PunyReadDelta(encoded, pos + 1, k + PunyBase,
                       i + decodeDigit(encoded[pos]) * w,
                       w * (PunyBase - PunyT(k, bias)), bias)

\* the rune n put into the output at index i (from 0)
InsertAt(output, i, n) ==
    SubSeq(output, 1, i) \o <<n>> \o SubSeq(output, i + 1, Len(output))

\* the bytes of string(output)
RECURSIVE EncodeRunes(_)
EncodeRunes(runes) ==
    IF runes = <<>> THEN <<>> ELSE EncodeRune(runes[1]) \o EncodeRunes(Tail(runes))

\* the outer loop of idna decode, and its step once one delta d is read
RECURSIVE PunyDecodeLoop(_, _, _, _, _, _)
RECURSIVE PunyDecodeStep(_, _, _, _, _, _)
PunyDecodeLoop(encoded, pos, i, n, bias, output) ==
    IF pos > Len(encoded) THEN [err |-> FALSE, str |-> EncodeRunes(output)]
    ELSE PunyDecodeStep(encoded, i, n, bias, output,
                        PunyReadDelta(encoded, pos, PunyBase, i, 1, bias))

PunyDecodeStep(encoded, oldI, n, bias, output, d) ==
    IF d.err \/ Len(output) >= 1024 \/ d.i \div (Len(output) + 1) > MaxRune - n
    THEN [err |-> TRUE, str |-> <<>>]
    ELSE PunyDecodeLoop(encoded, d.pos, (d.i % (Len(output) + 1)) + 1,
                        n + d.i \div (Len(output) + 1),
                        PunyAdapt(d.i - oldI, Len(output) + 1, oldI = 0),
                        InsertAt(output, d.i % (Len(output) + 1),
                                 n + d.i \div (Len(output) + 1)))

\* idna decode: the label an encoded label stands for.  pos is the position
\* after the last hyphen: the bytes before that hyphen are kept, the digits
\* after it say where which runes go in
PunyDecodeAt(encoded, pos) ==
    IF pos = 2 THEN [err |-> TRUE, str |-> <<>>]
    ELSE IF pos = Len(encoded) + 1
         THEN [err |-> FALSE, str |-> SubSeq(encoded, 1, Len(encoded) - 1)]
    ELSE PunyDecodeLoop(encoded, pos, 0, PunyInitialN, PunyInitialBias,
                        IF pos = 1 THEN <<>> ELSE Runes(SubSeq(encoded, 1, pos - 2)))

PunyDecode(encoded) ==
    IF encoded = <<>> THEN [err |-> FALSE, str |-> <<>>]
    ELSE PunyDecodeAt(encoded, 1 + LastIndexOf(encoded, "-"))

\* the second loop of Profile.process on one label: a label that is not
\* ASCII is encoded, and is an error and the empty label when that fails
labelToASCII(label) ==
    IF \A i \in 1..Len(label) : IsAsciiChar(label[i])
    THEN [err |-> FALSE, str |-> label]
    ELSE PunyEncode(label)

\* both loops of Profile.process on one label whose decoding is d: a label
\* with the ACE prefix is decoded first; when that fails it is an error and
\* the label is kept for the second loop
labelDecoded(label, d) ==
    IF d.err THEN [err |-> TRUE, str |-> labelToASCII(label).str]
    ELSE labelToASCII(d.str)

processLabel(label) ==
    IF HasPrefix(label, ACEPrefix)
    THEN labelDecoded(label, PunyDecode(SubSeq(label, Len(ACEPrefix) + 1, Len(label))))
    ELSE labelToASCII(label)

\* Profile.process on the labels between the dots
processLabels(labels) ==
    [err |-> \E i \in 1..Len(labels) : processLabel(labels[i]).err,
     str |-> JoinWith([i \in 1..Len(labels) |-> processLabel(labels[i]).str], ".")]

\* idna.ToASCII: the string and whether there is an error
ToASCII(host) == processLabels(Split(host, "."))

\* parseAndNormalizeURL after idna.ToASCII on the host: u with the host
\* ToASCII returned, and the error of ToASCII, a *labelError of idna
normalizedURL(u, host) ==
    [err |-> host.err, error |-> IF host.err THEN "idna.labelError" ELSE "nil",
     Scheme |-> u.Scheme, Host |-> host.str, Path |-> u.Path]

\* parseAndNormalizeURL, after url.Parse: its error, a *url.Error, is
\* returned as it is, else the host goes through idna.ToASCII.  err says
\* whether the error returned is not nil, error names its type
normalizeHost(u) ==
    IF u.err
    THEN [err |-> TRUE, error |-> "url.Error", Scheme |-> <<>>, Host |-> <<>>, Path |-> <<>>]
    ELSE normalizedURL(u, ToASCII(u.Host))

\* parseAndNormalizeURL
parseAndNormalizeURL(str) == normalizeHost(urlParse(str))

-----------------------------------------------------------------------------
(* package regexp, for the expressions compilePattern builds: literal     *)
(* runes, the non-capturing any-run group and the end-of-text assertion.   *)
(* A compiled expression is the sequence of its parts: the code point of   *)
(* a literal, AnyRun for the group, EndOfText for the assertion.  The      *)
(* expression and the text are read rune by rune: a byte of the text that  *)
(* is no UTF-8 is the rune U+FFFD, an expression that is no UTF-8 is       *)
(* refused.                                                                *)

AnyRun == [op |-> "(?:.*)", r |-> 0]
EndOfText == [op |-> "(?-m:$)", r |-> 0]
Literal(r) == [op |-> "literal", r |-> r]
AnyRunSrc == <<"(", "?", ":", ".", "*", ")">>

\* the characters regexp.QuoteMeta escapes
MetaChars == {"\\", ".", "+", "*", "?", "(", ")", "|", "[", "]", "{", "}", "^", "$"}

RECURSIVE QuoteMeta(_)
QuoteMeta(s) ==
    IF s = <<>> THEN <<>>
    ELSE (IF s[1] \in MetaChars THEN <<"\\", s[1]>> ELSE <<s[1]>>)
         \o QuoteMeta(Tail(s))

\* the part put before the parts of the rest of the expression
ConsPart(part, rest) == [err |-> rest.err, prog |-> <<part>> \o rest.prog]

\* the parts of an expression that is UTF-8; err is TRUE for a trailing
\* backslash
RECURSIVE CompileFrom(_, _)
CompileFrom(src, i) ==
    IF i > Len(src) THEN [err |-> FALSE, prog |-> <<>>]
    ELSE IF src[i] = "\\"
         THEN IF i = Len(src) THEN [err |-> TRUE, prog |-> <<>>]
              ELSE ConsPart(Literal(ByteOf[src[i + 1]]), CompileFrom(src, i + 2))
    ELSE IF HasPrefix(SubSeq(src, i, Len(src)), AnyRunSrc)
         THEN ConsPart(AnyRun, CompileFrom(src, i + Len(AnyRunSrc)))
    ELSE IF src[i] = "$"
         THEN ConsPart(EndOfText, CompileFrom(src, i + 1))
    ELSE ConsPart(Literal(DecodeRune(src, i).r),
                  CompileFrom(src, i + DecodeRune(src, i).size))

\* regexp.Compile: an expression that is no UTF-8 is an error
Compile(src) ==
    IF ValidString(src) THEN CompileFrom(src, 1) ELSE [err |-> TRUE, prog |-> <<>>]

\* the text as the matcher reads it: its runes, and InvalidByte for a byte
\* that is no UTF-8
InvalidByte == -1

RECURSIVE TextRunesFrom(_, _)
TextRunesFrom(s, i) ==
    IF i > Len(s) THEN <<>>
    ELSE IF DecodeRune(s, i).r = RuneError /\ DecodeRune(s, i).size = 1
         THEN <<InvalidByte>> \o TextRunesFrom(s, i + 1)
    ELSE <<DecodeRune(s, i).r>> \o TextRunesFrom(s, i + DecodeRune(s, i).size)

\* the rune the matcher steps over
RuneRead(t) == IF t = InvalidByte THEN RuneError ELSE t

\* Regexp.prefix (Prog.Prefix): the number of literals every match begins
\* with, up to the first literal that is U+FFFD
RECURSIVE PrefixLen(_, _)
PrefixLen(prog, i) ==
    IF i > Len(prog) \/ prog[i].op # "literal" \/ prog[i].r = RuneError THEN i - 1
    ELSE PrefixLen(prog, i + 1)

\* does prog, from part i on, match the text from position pos.  The
\* literals of the prefix are searched for as bytes (strings.Index); after
\* the prefix the matcher steps rune by rune and reads an invalid byte as
\* U+FFFD.
RECURSIVE MatchAt(_, _, _, _, _)
MatchAt(prog, i, text, pos, plen) ==
    IF i > Len(prog) THEN TRUE
    ELSE IF prog[i] = AnyRun
         THEN \E k \in pos..(Len(text) + 1) :
                 /\ \A j \in pos..(k - 1) : text[j] # 10
                 /\ MatchAt(prog, i + 1, text, k, plen)
    ELSE IF prog[i] = EndOfText
         THEN pos = Len(text) + 1 /\ MatchAt(prog, i + 1, text, pos, plen)
    ELSE /\ pos <= Len(text)
         /\ IF i <= plen THEN text[pos] = prog[i].r
            ELSE RuneRead(text[pos]) = prog[i].r
         /\ MatchAt(prog, i + 1, text, pos + 1, plen)

\* a match may start at any rune of the text
MatchRunes(prog, text) ==
    \E start \in 1..(Len(text) + 1) :
        MatchAt(prog, 1, text, start, PrefixLen(prog, 1))

\* Regexp.MatchString
MatchString(prog, text) == MatchRunes(prog, TextRunesFrom(text, 1))

-----------------------------------------------------------------------------
(* Natural numbers beyond the integers of the checker: the limbs of a      *)
(* number, the least significant first, the most significant not zero.     *)

Limb == 32768
LimbBits == 15

RECURSIVE BigTrim(_)
BigTrim(a) ==
    IF a # <<>> /\ a[Len(a)] = 0 THEN BigTrim(SubSeq(a, 1, Len(a) - 1)) ELSE a

\* a * m + c, for m and c below Limb
RECURSIVE BigMulAdd(_, _, _)
BigMulAdd(a, m, c) ==
    IF a = <<>> THEN (IF c = 0 THEN <<>> ELSE <<c>>)
    ELSE <<(a[1] * m + c) % Limb>> \o BigMulAdd(Tail(a), m, (a[1] * m + c) \div Limb)

\* one step of the division by d: hi is quotient and remainder of the limbs
\* above, limb the next limb down
BigDivLimb(hi, limb, d) ==
    [q |-> <<(hi.r * Limb + limb) \div d>> \o hi.q, r |-> (hi.r * Limb + limb) % d]

\* quotient and remainder of the limbs i and above of a by d
RECURSIVE BigDivFrom(_, _, _)
BigDivFrom(a, i, d) ==
    IF i > Len(a) THEN [q |-> <<>>, r |-> 0]
    ELSE BigDivLimb(BigDivFrom(a, i + 1, d), a[i], d)

BigTrimQ(qr) == [q |-> BigTrim(qr.q), r |-> qr.r]

\* quotient and remainder of a by d, for d up to Limb
BigDivSmall(a, d) == BigTrimQ(BigDivFrom(a, 1, d))

\* a * 10^k
RECURSIVE BigMulPow10(_, _)
BigMulPow10(a, k) ==
    IF k = 0 \/ a = <<>> THEN a
    ELSE IF k >= 4 THEN BigMulPow10(BigMulAdd(a, 10000, 0), k - 4)
    ELSE BigMulPow10(BigMulAdd(a, 10, 0), k - 1)

\* a divided by 10^k, rounded down: n is the quotient and st says whether
\* anything was lost
RECURSIVE BigDivPow10(_, _, _)
RECURSIVE BigDivPow10Step(_, _, _)
BigDivPow10(a, k, st) ==
    IF k = 0 THEN [n |-> a, st |-> st]
    ELSE IF k >= 4 THEN BigDivPow10Step(BigDivSmall(a, 10000), k - 4, st)
    ELSE BigDivPow10Step(BigDivSmall(a, 10), k - 1, st)

BigDivPow10Step(qr, k, st) ==
    IF qr.r # 0 THEN BigDivPow10(qr.q, k, TRUE) ELSE BigDivPow10(qr.q, k, st)

\* a * 2^s
BigShl(a, s) ==
    IF a = <<>> THEN <<>>
    ELSE [i \in 1..(s \div LimbBits) |-> 0] \o BigMulAdd(a, 2 ^ (s % LimbBits), 0)

BigShrStep(qr, lost) == [n |-> qr.q, st |-> lost \/ qr.r # 0]

\* a divided by 2^s, rounded down, and whether anything was lost
BigShr(a, s) ==
    BigShrStep(BigDivSmall(SubSeq(a, (s \div LimbBits) + 1, Len(a)), 2 ^ (s % LimbBits)),
               \E i \in 1..(s \div LimbBits) : i <= Len(a) /\ a[i] # 0)

\* the number of bits of a
BigBitLen(a) ==
    IF a = <<>> THEN 0
    ELSE LimbBits * (Len(a) - 1)
         + (CHOOSE n \in 1..LimbBits : a[Len(a)] < 2 ^ n /\ a[Len(a)] >= 2 ^ (n - 1))

BigIsOdd(a) == a # <<>> /\ a[1] % 2 = 1

RECURSIVE BigInc(_)
BigInc(a) ==
    IF a = <<>> THEN <<1>>
    ELSE IF a[1] + 1 < Limb THEN <<a[1] + 1>> \o Tail(a)
    ELSE <<0>> \o BigInc(Tail(a))

\* the decimal digits of a, none for zero
RECURSIVE BigDigits(_)
RECURSIVE BigDigitsStep(_)
BigDigits(a) == IF a = <<>> THEN <<>> ELSE BigDigitsStep(BigDivSmall(a, 10))
BigDigitsStep(qr) == BigDigits(qr.q) \o <<ByteChar(48 + qr.r)>>

-----------------------------------------------------------------------------
(* float64: a finite number is m * 2^e with m below 2^53 or equal to it.   *)

MantBits == 53
MaxExp == 1024

\* round to nearest, ties to even: half is the number cut to one bit more
\* than the mantissa, st says whether bits below were lost
roundHalfEven(half, st, e) ==
    [m |-> IF half.r = 1 /\ (st \/ BigIsOdd(half.q)) THEN BigInc(half.q) ELSE half.q,
     e |-> e]

roundCut(cut, st, e) == roundHalfEven(BigDivSmall(cut.n, 2), st \/ cut.st, e)

\* the float64 nearest to n * 2^e, where st says that the number is a
\* little more than that; a number with a st is long enough to be cut
roundFloat(n, st, e) ==
    IF BigBitLen(n) <= MantBits THEN [m |-> n, e |-> e]
    ELSE roundCut(BigShr(n, BigBitLen(n) - MantBits - 1), st, e + BigBitLen(n) - MantBits)

-----------------------------------------------------------------------------
(* package strconv: ParseFloat(s, 64) *)

lower(c) == IF ByteOf[c] >= 65 /\ ByteOf[c] <= 90 THEN ByteChar(ByteOf[c] + 32) ELSE c

LowerSeq(s) == [i \in 1..Len(s) |-> lower(s[i])]

\* the value of a hexadecimal digit
HexValue(c) == UnHex(c)

IsMantDigit(c, hex) == IsDigit(c) \/ (hex /\ lower(c) \in {"a", "b", "c", "d", "e", "f"})

\* strconv underscoreOK, after the sign and the base prefix: saw is the kind
\* of the character before
RECURSIVE underscoreOKFrom(_, _, _, _)
underscoreOKFrom(s, i, hex, saw) ==
    IF i > Len(s) THEN saw # "_"
    ELSE IF IsMantDigit(s[i], hex) THEN underscoreOKFrom(s, i + 1, hex, "0")
    ELSE IF s[i] = "_" THEN saw = "0" /\ underscoreOKFrom(s, i + 1, hex, "_")
    ELSE saw # "_" /\ underscoreOKFrom(s, i + 1, hex, "!")

underscoreOKPrefix(s) ==
    IF Len(s) >= 2 /\ s[1] = "0" /\ lower(s[2]) \in {"b", "o", "x"}
    THEN underscoreOKFrom(s, 3, lower(s[2]) = "x", "0")
    ELSE underscoreOKFrom(s, 1, FALSE, "^")

\* strconv underscoreOK
underscoreOK(s) ==
    IF s # <<>> /\ s[1] \in {"+", "-"} THEN underscoreOKPrefix(Tail(s))
    ELSE underscoreOKPrefix(s)

\* the digits loop of strconv readFloat from position i: the mantissa as a
\* number, its digits from the first that is not 0 on, the count of its
\* digits after the point, and where the loop ends
RECURSIVE readMantissa(_, _, _, _)
readMantissa(s, i, hex, st) ==
    IF i > Len(s) THEN [st EXCEPT !.i = i]
    ELSE IF s[i] = "_" THEN readMantissa(s, i + 1, hex, st)
    ELSE IF s[i] = "." /\ ~st.sawdot
         THEN readMantissa(s, i + 1, hex, [st EXCEPT !.sawdot = TRUE])
    ELSE IF IsMantDigit(s[i], hex)
         THEN readMantissa(s, i + 1, hex,
                [st EXCEPT !.sawdigits = TRUE,
                           !.mant = BigMulAdd(st.mant, IF hex THEN 16 ELSE 10,
                                              HexValue(s[i])),
                           !.digits = IF st.digits = <<>> /\ s[i] = "0" THEN <<>>
                                      ELSE Append(st.digits, s[i]),
                           !.frac = IF st.sawdot THEN st.frac + 1 ELSE st.frac])
    ELSE [st EXCEPT !.i = i]

\* the digits of the exponent from position i, which holds a digit
RECURSIVE readExpDigits(_, _, _)
readExpDigits(s, i, e) ==
    IF i > Len(s) \/ ~(IsDigit(s[i]) \/ s[i] = "_") THEN [ok |-> TRUE, e |-> e, i |-> i]
    ELSE IF s[i] = "_" THEN readExpDigits(s, i + 1, e)
    ELSE readExpDigits(s, i + 1, IF e < 10000 THEN e * 10 + DigitOf[s[i]] ELSE e)

negExp(x) == [x EXCEPT !.e = 0 - x.e]

\* the exponent of readFloat after its letter: sign and digits
readExpSigned(s, i) ==
    IF i > Len(s) THEN [ok |-> FALSE, e |-> 0, i |-> i]
    ELSE IF s[i] \in {"+", "-"}
         THEN IF i + 1 > Len(s) \/ ~IsDigit(s[i + 1])
              THEN [ok |-> FALSE, e |-> 0, i |-> i]
              ELSE IF s[i] = "-" THEN negExp(readExpDigits(s, i + 1, 0))
                   ELSE readExpDigits(s, i + 1, 0)
    ELSE IF ~IsDigit(s[i]) THEN [ok |-> FALSE, e |-> 0, i |-> i]
    ELSE readExpDigits(s, i, 0)

\* the optional exponent of readFloat; a hexadecimal number must have one
readExp(s, i, hex) ==
    IF i <= Len(s) /\ lower(s[i]) = (IF hex THEN "p" ELSE "e") THEN readExpSigned(s, i + 1)
    ELSE [ok |-> ~hex, e |-> 0, i |-> i]

\* readFloat on the whole of s once mantissa and exponent are read: ok when
\* there were digits, the exponent is well formed, nothing is left over and
\* the underscores are where they may be.  The number is
\* mant * 10^exp, or mant * 2^exp when hex
readNumber(s, hex, m, x) ==
    [ok |-> /\ m.sawdigits /\ x.ok /\ x.i = Len(s) + 1
            /\ (Contains(s, "_") => underscoreOK(s)),
     hex |-> hex,
     mant |-> BigTrim(m.mant),
     digits |-> m.digits,
     exp |-> IF hex THEN x.e - 4 * m.frac ELSE x.e - m.frac]

readAfterMantissa(s, hex, m) == readNumber(s, hex, m, readExp(s, m.i, hex))

readFrom(s, i, hex) ==
    readAfterMantissa(s, hex,
        readMantissa(s, i, hex,
            [mant |-> <<>>, digits |-> <<>>, frac |-> 0, sawdot |-> FALSE,
             sawdigits |-> FALSE, i |-> i]))

\* readFloat after the sign, which is at position i - 1 if there is one
readUnsigned(s, i) ==
    IF i + 2 <= Len(s) /\ s[i] = "0" /\ lower(s[i + 1]) = "x"
    THEN readFrom(s, i + 2, TRUE)
    ELSE readFrom(s, i, FALSE)

\* strconv readFloat, for a string that has to be a number as a whole
readFloat(s) ==
    IF s = <<>> THEN [ok |-> FALSE, hex |-> FALSE, mant |-> <<>>, digits |-> <<>>, exp |-> 0]
    ELSE readUnsigned(s, IF s[1] \in {"+", "-"} THEN 2 ELSE 1)

StrInf == <<"i", "n", "f">>
StrInfinity == <<"i", "n", "f", "i", "n", "i", "t", "y">>
StrNaN == <<"n", "a", "n">>

\* strconv special, for a string that has to be special as a whole
special(s) ==
    IF LowerSeq(s) = StrNaN THEN "NaN"
    ELSE IF LowerSeq(s) \in {StrInf, StrInfinity, <<"+">> \o StrInf, <<"+">> \o StrInfinity}
         THEN "+Inf"
    ELSE IF LowerSeq(s) \in {<<"-">> \o StrInf, <<"-">> \o StrInfinity} THEN "-Inf"
    ELSE "none"

-----------------------------------------------------------------------------
(* time.Duration(delay * float64(time.Second)): a duration is the decimal   *)
(* text of its nanoseconds.  What the conversion gives for a product that  *)
(* no int64 holds depends on the build: such a duration is written as the  *)
(* product, "+Inf" for one above the int64, "-Inf" for one below, "NaN".   *)

\* time.Second, in nanoseconds
Second == 1000000000

DurationZero == <<"0">>
MinInt64 == <<"-","9","2","2","3","3","7","2","0","3","6","8","5","4","7","7","5","8","0","8">>
MaxInt64 == <<"9","2","2","3","3","7","2","0","3","6","8","5","4","7","7","5","8","0","7">>
ProductAbove == <<"+Inf">>
ProductBelow == <<"-Inf">>
ProductNaN == <<"NaN">>

\* the int64 a build can give for a duration: amd64 gives the least int64 for
\* every product no int64 holds, arm64 the nearest int64 and 0 for NaN,
\* riscv64 the nearest int64 and the greatest for NaN
DurationOutcomes(d) ==
    IF d = ProductAbove THEN {MinInt64, MaxInt64}
    ELSE IF d = ProductBelow THEN {MinInt64}
    ELSE IF d = ProductNaN THEN {MinInt64, DurationZero, MaxInt64}
    ELSE {d}

\* the text of the whole number n with its sign
durationText(neg, n) ==
    IF n = <<>> THEN DurationZero
    ELSE (IF neg THEN <<"-">> ELSE <<>>) \o BigDigits(n)

\* int64(p.m * 2^p.e) with the sign: the fraction is cut off
truncDuration(neg, p) ==
    IF BigBitLen(p.m) + p.e > 63
    THEN IF ~neg THEN ProductAbove
         ELSE IF BigBitLen(p.m) + p.e = 64 /\ ~BigShr(p.m, BigBitLen(p.m) - 1).st
              THEN MinInt64 ELSE ProductBelow
    ELSE IF p.e >= 0 THEN durationText(neg, BigShl(p.m, p.e))
    ELSE IF 0 - p.e >= BigBitLen(p.m) THEN DurationZero
    ELSE durationText(neg, BigShr(p.m, 0 - p.e).n)

\* delay * float64(time.Second) for the float64 f, then the conversion
durationOfFloat(neg, f) ==
    truncDuration(neg,
        roundFloat(BigMulAdd(BigMulAdd(f.m, Second \div 32000, 0), 32000, 0), FALSE, f.e))

\* ParseFloat gives an error for a number too large for a float64
floatResult(neg, f) ==
    IF BigBitLen(f.m) + f.e > MaxExp THEN [err |-> TRUE, nanos |-> DurationZero]
    ELSE [err |-> FALSE, nanos |-> durationOfFloat(neg, f)]

floatOfQuotient(neg, quot, e) == floatResult(neg, roundFloat(quot.n, quot.st, e))

\* the digits of 2^1024 - 2^970, half way between the greatest float64 and
\* 2^1024: a number is too large for a float64 from this one on
FloatLimit ==
    <<"1","7","9","7","6","9","3","1","3","4","8","6","2","3","1","5","8","0","7","9","3","7","2","8","9",
      "7","1","4","0","5","3","0","3","4","1","5","0","7","9","9","3","4","1","3","2","7","1","0","0","3",
      "7","8","2","6","9","3","6","1","7","3","7","7","8","9","8","0","4","4","4","9","6","8","2","9","2",
      "7","6","4","7","5","0","9","4","6","6","4","9","0","1","7","9","7","7","5","8","7","2","0","7","0",
      "9","6","3","3","0","2","8","6","4","1","6","6","9","2","8","8","7","9","1","0","9","4","6","5","5",
      "5","5","4","7","8","5","1","9","4","0","4","0","2","6","3","0","6","5","7","4","8","8","6","7","1",
      "5","0","5","8","2","0","6","8","1","9","0","8","9","0","2","0","0","0","7","0","8","3","8","3","6",
      "7","6","2","7","3","8","5","4","8","4","5","8","1","7","7","1","1","5","3","1","7","6","4","4","7",
      "5","7","3","0","2","7","0","0","6","9","8","5","5","5","7","1","3","6","6","9","5","9","6","2","2",
      "8","4","2","9","1","4","8","1","9","8","6","0","8","3","4","9","3","6","4","7","5","2","9","2","7",
      "1","9","0","7","4","1","6","8","4","4","4","3","6","5","5","1","0","7","0","4","3","4","2","7","1",
      "1","5","5","9","6","9","9","5","0","8","0","9","3","0","4","2","8","8","0","1","7","7","9","0","4",
      "1","7","4","4","9","7","7","9","2">>

\* is the number with these digits, the point after digit 309, at least
\* FloatLimit
AtLeastFloatLimit(digits) ==
    ~\E i \in 1..Len(FloatLimit) :
        /\ (IF i <= Len(digits) THEN DigitOf[digits[i]] ELSE 0) < DigitOf[FloatLimit[i]]
        /\ \A j \in 1..(i - 1) :
              (IF j <= Len(digits) THEN digits[j] ELSE "0") = FloatLimit[j]

\* the duration of mant * 10^exp, where mant has these digits and
\* 10^(mag-1) <= mant * 10^exp < 10^mag.  A number below 10^-10 gives a
\* product below 1 and one of 10^11 or more a product no int64 holds; the
\* others are rounded to the nearest float64
decimalResult(neg, mant, exp, digits, mag) ==
    IF mant = <<>> \/ mag <= 0 - 10 THEN [err |-> FALSE, nanos |-> DurationZero]
    ELSE IF mag > Len(FloatLimit) \/ (mag = Len(FloatLimit) /\ AtLeastFloatLimit(digits))
         THEN [err |-> TRUE, nanos |-> DurationZero]
    ELSE IF mag >= 12
         THEN [err |-> FALSE, nanos |-> IF neg THEN ProductBelow ELSE ProductAbove]
    ELSE IF exp >= 0 THEN floatResult(neg, roundFloat(BigMulPow10(mant, exp), FALSE, 0))
    ELSE floatOfQuotient(neg,
            BigDivPow10(BigShl(mant, 64 - 4 * exp), 0 - exp, FALSE), 4 * exp - 64)

\* the duration of mant * 2^exp.  A number below 2^-31 gives a product
\* below 1
hexResult(neg, mant, exp) ==
    IF mant = <<>> \/ BigBitLen(mant) + exp <= 0 - 31 THEN [err |-> FALSE, nanos |-> DurationZero]
    ELSE IF BigBitLen(mant) + exp > MaxExp + 1 THEN [err |-> TRUE, nanos |-> DurationZero]
    ELSE floatResult(neg, roundFloat(mant, FALSE, exp))

numberResult(neg, num) ==
    IF ~num.ok THEN [err |-> TRUE, nanos |-> DurationZero]
    ELSE IF num.hex THEN hexResult(neg, num.mant, num.exp)
    ELSE decimalResult(neg, num.mant, num.exp, num.digits, Len(num.digits) + num.exp)

specialResult(kind) ==
    [err |-> FALSE,
     nanos |-> IF kind = "NaN" THEN ProductNaN
               ELSE IF kind = "+Inf" THEN ProductAbove ELSE ProductBelow]

\* strconv.ParseFloat(str, 64) with time.Duration(delay * float64(time.Second))
\* applied to the value: err, or the duration
parseDelay(str) ==
    IF special(str) # "none" THEN specialResult(special(str))
    ELSE numberResult(str # <<>> /\ str[1] = "-", readFloat(str))

-----------------------------------------------------------------------------
(* robotstxt.go *)

\* replaceSuffix as it would be if it never replaced
replaceSuffix_Never(str, suffix, replacement) == str

replaceSuffix(str, suffix, replacement) ==
    IF HasSuffix(str, suffix)
    THEN SubSeq(str, 1, Len(str) - Len(suffix)) \o replacement
    ELSE str

isPattern(path) == Contains(path, "*") \/ HasSuffix(path, <<"$">>)

\* the regular expression source compilePattern hands to regexp.Compile
patternSource(pattern) ==
    LET p1 == QuoteMeta(pattern)
        p2 == Replace(p1, <<"\\", "*">>, AnyRunSrc)
        p3 == replaceSuffix(p2, <<"\\", "$">>, <<"$">>)
        p4 == replaceSuffix(p3, <<"%", "2", "4">>, <<"\\", "$">>)
        p5 == replaceSuffix(p4, <<"%", "2", "5", "2", "4">>, <<"%", "2", "4">>)
    IN  Replace(p5, <<"%", "2", "A">>, <<"\\", "*">>)

compilePattern(pattern) == Compile(patternSource(pattern))

\* the normalisation as it would be without the lowercasing
normaliseUserAgent_NoLower(userAgent) ==
    LET index == Index(userAgent, <<"/">>)
        cut == IF index > 0 THEN SubSeq(userAgent, 1, index - 1) ELSE userAgent
    IN  TrimSpace(cut)

normaliseUserAgent(userAgent) ==
    LET index == Index(userAgent, <<"/">>)
        cut == IF index > 0 THEN SubSeq(userAgent, 1, index - 1) ELSE userAgent
    IN  ToLower(TrimSpace(cut))

NilPattern == [nil |-> TRUE, prog |-> <<>>]

\* the loop of group.isAllowed with the skip test turned into >=: of two
\* literal rules of the same length the one declared first would decide
RECURSIVE isAllowedLoop_EarlierWinsTies(_, _, _, _, _)
isAllowedLoop_EarlierWinsTies(rules, i, path, result, resultPathLength) ==
    IF i > Len(rules) THEN result
    ELSE IF ~rules[i].pattern.nil
         THEN IF MatchString(rules[i].pattern.prog, path)
              THEN rules[i].isAllowed
              ELSE isAllowedLoop_EarlierWinsTies(rules, i + 1, path, result, resultPathLength)
    ELSE IF resultPathLength >= Len(rules[i].path)
         THEN isAllowedLoop_EarlierWinsTies(rules, i + 1, path, result, resultPathLength)
    ELSE IF HasPrefix(path, rules[i].path)
         THEN isAllowedLoop_EarlierWinsTies(rules, i + 1, path, rules[i].isAllowed,
                                            Len(rules[i].path))
    ELSE isAllowedLoop_EarlierWinsTies(rules, i + 1, path, result, resultPathLength)

\* the loop of group.isAllowed without the return at a matching pattern: the
\* pattern would set the result and the rules after it would still be read
RECURSIVE isAllowedLoop_PatternDoesNotReturn(_, _, _, _, _)
isAllowedLoop_PatternDoesNotReturn(rules, i, path, result, resultPathLength) ==
    IF i > Len(rules) THEN result
    ELSE IF ~rules[i].pattern.nil
         THEN IF MatchString(rules[i].pattern.prog, path)
              THEN isAllowedLoop_PatternDoesNotReturn(rules, i + 1, path, rules[i].isAllowed,
                                                      resultPathLength)
              ELSE isAllowedLoop_PatternDoesNotReturn(rules, i + 1, path, result,
                                                      resultPathLength)
    ELSE IF resultPathLength > Len(rules[i].path)
         THEN isAllowedLoop_PatternDoesNotReturn(rules, i + 1, path, result, resultPathLength)
    ELSE IF HasPrefix(path, rules[i].path)
         THEN isAllowedLoop_PatternDoesNotReturn(rules, i + 1, path, rules[i].isAllowed,
                                                 Len(rules[i].path))
    ELSE isAllowedLoop_PatternDoesNotReturn(rules, i + 1, path, result, resultPathLength)

\* the loop of group.isAllowed from rule i on
RECURSIVE isAllowedLoop(_, _, _, _, _)
isAllowedLoop(rules, i, path, result, resultPathLength) ==
    IF i > Len(rules) THEN result
    ELSE LET rule == rules[i] IN
         IF ~rule.pattern.nil
         THEN IF MatchString(rule.pattern.prog, path)
              THEN rule.isAllowed
              ELSE isAllowedLoop(rules, i + 1, path, result, resultPathLength)
         ELSE IF resultPathLength > Len(rule.path)
              THEN isAllowedLoop(rules, i + 1, path, result, resultPathLength)
         ELSE IF HasPrefix(path, rule.path)
              THEN isAllowedLoop(rules, i + 1, path, rule.isAllowed, Len(rule.path))
         ELSE isAllowedLoop(rules, i + 1, path, result, resultPathLength)

\* group.isAllowed
isAllowed(g, userAgent, path) == isAllowedLoop(g.rules, 1, path, TRUE, 0)

\* &group{}
NewGroup == [rules |-> <<>>, crawlDelay |-> DurationZero]

\* g, ok := r.groups[userAgent]; if !ok { g = &group{}; r.groups[userAgent] = g }
withGroup(r, userAgent) ==
    IF userAgent \in DOMAIN r.groups THEN r
    ELSE [r EXCEPT !.groups = [k \in DOMAIN r.groups \cup {userAgent} |->
                                 IF k = userAgent THEN NewGroup ELSE r.groups[k]]]

\* the path of a rule after the escapes of addPathRule
unescapeRulePath(path) ==
    LET p1 == IF isPattern(path)
              THEN replaceSuffix(path, <<"%", "2", "4">>, <<"%", "2", "5", "2", "4">>)
              ELSE path
        p2 == Replace(p1, <<"%", "2", "A">>, <<"%", "2", "5", "2", "A">>)
        un == PathUnescape(p2)
    IN  IF ~un.err THEN un.str
        ELSE Replace(p2, <<"%", "2", "5", "2", "A">>, <<"%", "2", "A">>)

\* RobotsTxt.addPathRule: the struct after the call
addPathRule(r, userAgent, path, allowed) ==
    LET r1 == withGroup(r, userAgent)
        p == unescapeRulePath(path)
        re == compilePattern(p)
    IN  IF isPattern(path)
        THEN IF re.err THEN r1
             ELSE [r1 EXCEPT !.groups[userAgent].rules =
                     Append(@, [isAllowed |-> allowed, path |-> <<>>,
                                pattern |-> [nil |-> FALSE, prog |-> re.prog]])]
        ELSE [r1 EXCEPT !.groups[userAgent].rules =
                Append(@, [isAllowed |-> allowed, path |-> p, pattern |-> NilPattern])]

\* addCrawlDelay as it would be if a value that is no number reset the delay
addCrawlDelay_ResetOnError(r, userAgent, crawlDelay) ==
    [withGroup(r, userAgent) EXCEPT !.groups[userAgent].crawlDelay =
        IF parseDelay(crawlDelay).err THEN DurationZero ELSE parseDelay(crawlDelay).nanos]

\* RobotsTxt.addCrawlDelay: the struct after the call
addCrawlDelay(r, userAgent, crawlDelay) ==
    LET r1 == withGroup(r, userAgent)
        d == parseDelay(crawlDelay)
    IN  IF ~d.err THEN [r1 EXCEPT !.groups[userAgent].crawlDelay = d.nanos]
        ELSE r1

\* for _, ua := range userAgents { r.addPathRule(ua, val, allowed) }
RECURSIVE addPathRuleAll(_, _, _, _)
addPathRuleAll(r, uas, val, allowed) ==
    IF uas = <<>> THEN r
    ELSE addPathRuleAll(addPathRule(r, uas[1], val, allowed), Tail(uas), val, allowed)

\* for _, ua := range userAgents { r.addCrawlDelay(ua, val) }
RECURSIVE addCrawlDelayAll(_, _, _)
addCrawlDelayAll(r, uas, val) ==
    IF uas = <<>> THEN r
    ELSE addCrawlDelayAll(addCrawlDelay(r, uas[1], val), Tail(uas), val)

KeyUserAgent == <<"u","s","e","r","-","a","g","e","n","t">>
KeyAllow == <<"a","l","l","o","w">>
KeyDisallow == <<"d","i","s","a","l","l","o","w">>
KeyCrawlDelay == <<"c","r","a","w","l","-","d","e","l","a","y">>
KeySitemap == <<"s","i","t","e","m","a","p">>
KeyHost == <<"h","o","s","t">>

\* the list as it would be if rules outside a group went to "*"
InitialUserAgents_Star == <<<<"*">>>>

\* var userAgents []string
InitialUserAgents == <<>>

\* the user-agent case as it would be if the list were never cleared
userAgentCase_NeverClear(uas, noneState, val) ==
    Append(uas, normaliseUserAgent(val))

\* the user-agent case of the switch in Parse: the list after the line
userAgentCase(uas, noneState, val) ==
    Append(IF noneState THEN <<>> ELSE uas, normaliseUserAgent(val))

\* the body of the loop of Parse on one line: the locals and the struct after it
parseLine(line, uas, noneState, r) ==
    LET parts == SplitN2(line, ":") IN
    IF Len(parts) <= 1
    THEN [userAgents |-> uas, isNoneUserAgentState |-> noneState, robotsTxt |-> r]
    ELSE LET rule == ToLower(TrimSpace(parts[1]))
             val == TrimSpace(parts[2])
         IN  [userAgents |->
                 IF rule = KeyUserAgent THEN userAgentCase(uas, noneState, val) ELSE uas,
              isNoneUserAgentState |-> rule # KeyUserAgent,
              robotsTxt |->
                 IF rule = KeyAllow THEN addPathRuleAll(r, uas, val, TRUE)
                 ELSE IF rule = KeyDisallow THEN addPathRuleAll(r, uas, val, FALSE)
                 ELSE IF rule = KeyCrawlDelay THEN addCrawlDelayAll(r, uas, val)
                 ELSE IF rule = KeySitemap /\ val # <<>>
                      THEN [r EXCEPT !.sitemaps = Append(@, val)]
                 ELSE IF rule = KeyHost /\ val # <<>>
                      THEN [r EXCEPT !.host = val]
                 ELSE r]

\* the selection as it would be if a group without rules fell back to "*"
selectGroup_FallbackWhenNoRules(r, userAgent) ==
    IF /\ normaliseUserAgent(userAgent) \in DOMAIN r.groups
       /\ r.groups[normaliseUserAgent(userAgent)].rules # <<>>
    THEN [ok |-> TRUE, group |-> r.groups[normaliseUserAgent(userAgent)]]
    ELSE IF <<"*">> \in DOMAIN r.groups
         THEN [ok |-> TRUE, group |-> r.groups[<<"*">>]]
    ELSE [ok |-> FALSE, group |-> NewGroup]

\* the group a query of userAgent reads: its own, else the one of "*", else none
selectGroup(r, userAgent) ==
    IF normaliseUserAgent(userAgent) \in DOMAIN r.groups
    THEN [ok |-> TRUE, group |-> r.groups[normaliseUserAgent(userAgent)]]
    ELSE IF <<"*">> \in DOMAIN r.groups
         THEN [ok |-> TRUE, group |-> r.groups[<<"*">>]]
    ELSE [ok |-> FALSE, group |-> NewGroup]

\* RobotsTxt.CrawlDelay
CrawlDelay(r, userAgent) ==
    IF selectGroup(r, userAgent).ok THEN selectGroup(r, userAgent).group.crawlDelay
    ELSE DurationZero

\* the mismatch test with "and" for "or": only a URL that differs in both
\* scheme and host would be refused
hostMismatch_BothDiffer(u, base) == u.Scheme # base.Scheme /\ u.Host # base.Host

\* the mismatch test of RobotsTxt.IsAllowed
hostMismatch(u, base) == u.Scheme # base.Scheme \/ u.Host # base.Host

\* RobotsTxt.IsAllowed: result and err
IsAllowed(r, userAgent, str) ==
    LET u == parseAndNormalizeURL(str)
        sel == selectGroup(r, userAgent)
    IN  IF u.err THEN [result |-> FALSE, err |-> u.error]
        ELSE IF hostMismatch(u, r.url)
             THEN [result |-> FALSE, err |-> "InvalidHostError"]
        ELSE [result |-> IF sel.ok THEN isAllowed(sel.group, userAgent, u.Path) ELSE TRUE,
              err |-> "nil"]

\* RobotsTxt.Sitemaps
Sitemaps(r) == r.sitemaps

\* RobotsTxt.Host
Host(r) == r.host

-----------------------------------------------------------------------------
(* The calls as steps: Parse, then one call of a method on the value it    *)
(* returned.  The methods only read the value, so one call is followed.   *)

NoRobots == [url |-> NoURL, groups |-> <<>>, sitemaps |-> <<>>, host |-> <<>>]
NoCall == [op |-> "none", userAgent |-> <<>>, urlStr |-> <<>>, result |-> FALSE, err |-> "nil"]

\* the state before Parse(text, url) runs
InitWith(texts, urls) ==
    /\ contents \in texts
    /\ urlStr \in urls
    /\ pc = "start"
    /\ lines = <<>>
    /\ idx = 1
    /\ userAgents = InitialUserAgents
    /\ isNoneUserAgentState = FALSE
    /\ robotsTxt = NoRobots
    /\ res = NoCall

\* Parse up to the loop: the base URL is parsed, the struct made, the text split
ParseBegin ==
    /\ pc = "start"
    /\ LET u == parseAndNormalizeURL(urlStr) IN
       IF u.err
       THEN /\ pc' = "failed"
            /\ UNCHANGED <<lines, robotsTxt>>
       ELSE /\ pc' = "lines"
            /\ robotsTxt' = [NoRobots EXCEPT !.url = u]
            /\ lines' = Split(contents, "\n")
    /\ UNCHANGED <<contents, urlStr, idx, userAgents, isNoneUserAgentState, res>>

\* one iteration of the loop of Parse
ParseLine ==
    /\ pc = "lines"
    /\ idx <= Len(lines)
    /\ LET after == parseLine(lines[idx], userAgents, isNoneUserAgentState, robotsTxt) IN
       /\ userAgents' = after.userAgents
       /\ isNoneUserAgentState' = after.isNoneUserAgentState
       /\ robotsTxt' = after.robotsTxt
    /\ idx' = idx + 1
    /\ UNCHANGED <<contents, urlStr, pc, lines, res>>

\* the loop is over and Parse returns the struct
ParseReturn ==
    /\ pc = "lines"
    /\ idx > Len(lines)
    /\ pc' = "parsed"
    /\ UNCHANGED <<contents, urlStr, lines, idx, userAgents, isNoneUserAgentState,
                   robotsTxt, res>>

CallIsAllowed(userAgent, str) ==
    /\ pc = "parsed"
    /\ pc' = "called"
    /\ LET got == IsAllowed(robotsTxt, userAgent, str) IN
       res' = [op |-> "IsAllowed", userAgent |-> userAgent, urlStr |-> str,
               result |-> got.result, err |-> got.err]
    /\ UNCHANGED <<contents, urlStr, lines, idx, userAgents,
                   isNoneUserAgentState, robotsTxt>>

CallCrawlDelay(userAgent) ==
    /\ pc = "parsed"
    /\ \E d \in DurationOutcomes(CrawlDelay(robotsTxt, userAgent)) :
          res' = [op |-> "CrawlDelay", userAgent |-> userAgent, urlStr |-> <<>>,
                  result |-> d, err |-> "nil"]
    /\ pc' = "called"
    /\ UNCHANGED <<contents, urlStr, lines, idx, userAgents,
                   isNoneUserAgentState, robotsTxt>>

CallSitemaps ==
    /\ pc = "parsed"
    /\ res' = [op |-> "Sitemaps", userAgent |-> <<>>, urlStr |-> <<>>,
               result |-> Sitemaps(robotsTxt), err |-> "nil"]
    /\ pc' = "called"
    /\ UNCHANGED <<contents, urlStr, lines, idx, userAgents,
                   isNoneUserAgentState, robotsTxt>>

CallHost ==
    /\ pc = "parsed"
    /\ res' = [op |-> "Host", userAgent |-> <<>>, urlStr |-> <<>>,
               result |-> Host(robotsTxt), err |-> "nil"]
    /\ pc' = "called"
    /\ UNCHANGED <<contents, urlStr, lines, idx, userAgents,
                   isNoneUserAgentState, robotsTxt>>

-----------------------------------------------------------------------------
(* Inputs *)

\* the texts of at most n lines, each line one of lineSet
TextsOf(lineSet, n) ==
    {JoinWith(ls, "\n") : ls \in UNION {[1..k -> lineSet] : k \in 0..n}}

LineAgentStar == <<"U","s","e","r","-","a","g","e","n","t",":"," ","*">>
LineAgentA == <<"U","S","E","R","-","A","g","e","n","t"," ",":"," ","A","/","1",".","0">>
LineDisallowX == <<"D","i","s","a","l","l","o","w",":"," ","/","x">>
LineAllowBlank == <<"A","l","l","o","w",":">>
LineCrawlDelay1 == <<"C","r","a","w","l","-","d","e","l","a","y",":"," ","1">>
BaseURL == <<"h","t","t","p",":","/","/","h","/","r","o","b","o","t","s",".","t","x","t">>
URLx == <<"h","t","t","p",":","/","/","h","/","x">>
URLy == <<"h","t","t","p",":","/","/","h","/","y">>
URLother == <<"h","t","t","p",":","/","/","g","/","x">>
AgentA == <<"a">>
AgentA2 == <<"A"," ","/","2">>
AgentC == <<"c">>
AgentStar == <<"*">>

\* Spec: groups of "*" and of one named agent, rules, blank rules, delays
MaxLines == 4
SpecLines == {LineAgentStar, LineAgentA, LineDisallowX, LineAllowBlank, LineCrawlDelay1}
SpecAgents == {AgentA, AgentA2, AgentC, AgentStar}
SpecURLs == {URLx, URLy, URLother}

Init == InitWith(TextsOf(SpecLines, MaxLines), {BaseURL})

Next ==
    \/ ParseBegin
    \/ ParseLine
    \/ ParseReturn
    \/ \E ua \in SpecAgents, u \in SpecURLs : CallIsAllowed(ua, u)
    \/ \E ua \in SpecAgents : CallCrawlDelay(ua)
    \/ CallSitemaps
    \/ CallHost

Spec == Init /\ [][Next]_vars

LineGroupA == <<"U","s","e","r","-","a","g","e","n","t",":"," ","a">>
LineGroupB == <<"u","s","e","r","-","a","g","e","n","t",":"," ","B">>
LineSitemapS == <<"S","i","t","e","m","a","p",":"," ","s">>
LineComment == <<"#"," ","c">>
AgentB == <<"b">>

\* SpecGroup: two named agents, a rule, a delay, a directive of another kind
\* and a line without a colon
MaxGroupLines == 4
GroupLines == {LineGroupA, LineGroupB, LineDisallowX, LineCrawlDelay1, LineSitemapS,
               LineComment}
GroupAgents == {AgentA, AgentB}

InitGroup == InitWith(TextsOf(GroupLines, MaxGroupLines), {BaseURL})

NextGroup ==
    \/ ParseBegin
    \/ ParseLine
    \/ ParseReturn
    \/ \E ua \in GroupAgents : CallIsAllowed(ua, URLx)
    \/ \E ua \in GroupAgents : CallCrawlDelay(ua)
    \/ CallSitemaps
    \/ CallHost

SpecGroup == InitGroup /\ [][NextGroup]_vars

-----------------------------------------------------------------------------
(* What the text says, read off the lines without the parser's state *)

HasColon(line) == Contains(line, ":")
LineKey(line) == ToLower(TrimSpace(SplitN2(line, ":")[1]))
LineValue(line) == TrimSpace(SplitN2(line, ":")[2])
IsDirective(line, key) == HasColon(line) /\ LineKey(line) = key
IsUserAgentLine(line) == IsDirective(line, KeyUserAgent)

\* the lines the loop of Parse has handled so far
Handled == IF pc = "start" \/ pc = "failed" THEN <<>> ELSE SubSeq(lines, 1, idx - 1)

\* the path of the URL of the last call
CalledPath == parseAndNormalizeURL(res.urlStr).Path

\* the robots.txt value without the group of "*"
WithoutStar(r) ==
    [r EXCEPT !.groups = [k \in DOMAIN r.groups \ {<<"*">>} |-> r.groups[k]]]

-----------------------------------------------------------------------------
(* Claims *)

\* C3: IsAllowed and CrawlDelay answer from the rule set stored under the
\* normalised queried user-agent whenever it exists, from the one of "*" only
\* when it does not, and allowed / 0 when neither exists; an agent with its
\* own rule set gets the answer it would get if "*" had no rule set at all.
C3_OwnRuleSetNeverFallsBack ==
    pc = "called" /\ res.err = "nil" /\ res.op \in {"IsAllowed", "CrawlDelay"} =>
        LET k == normaliseUserAgent(res.userAgent)
            g == robotsTxt.groups
            own == k \in DOMAIN g
            star == <<"*">> \in DOMAIN g
        IN  IF res.op = "IsAllowed"
            THEN /\ own => res.result = isAllowed(g[k], res.userAgent, CalledPath)
                 /\ own /\ k # <<"*">> => res.result =
                        IsAllowed(WithoutStar(robotsTxt), res.userAgent, res.urlStr).result
                 /\ ~own /\ star => res.result = isAllowed(g[<<"*">>], res.userAgent, CalledPath)
                 /\ ~own /\ ~star => res.result = TRUE
            ELSE /\ own => res.result \in DurationOutcomes(g[k].crawlDelay)
                 /\ own /\ k # <<"*">> =>
                        res.result \in DurationOutcomes(
                            CrawlDelay(WithoutStar(robotsTxt), res.userAgent))
                 /\ ~own /\ star => res.result \in DurationOutcomes(g[<<"*">>].crawlDelay)
                 /\ ~own /\ ~star => res.result = DurationZero

\* C3 witness: "*" disallows /x, the rule set of agent a was made by a blank
\* Allow alone, and the call for a on /x answers allowed
C3_Witness ==
    /\ pc = "called" /\ res.op = "IsAllowed" /\ res.err = "nil"
    /\ res.userAgent = AgentA /\ res.urlStr = URLx
    /\ <<"*">> \in DOMAIN robotsTxt.groups
    /\ <<"a">> \in DOMAIN robotsTxt.groups
    /\ ~isAllowed(robotsTxt.groups[<<"*">>], AgentStar, CalledPath)
    /\ lines[Len(lines)] = LineAllowBlank
    /\ Len(robotsTxt.groups[<<"a">>].rules) = 1
    /\ robotsTxt.groups[<<"a">>].crawlDelay = DurationZero
    /\ res.result = TRUE

\* C4: while no User-agent line has been read no rule set exists, whatever
\* Allow, Disallow and Crawl-delay lines were read; a text without any
\* User-agent line allows every path to every user-agent.
C4_RulesOutsideGroupAttachNowhere ==
    (\A i \in 1..Len(Handled) : ~IsUserAgentLine(Handled[i])) =>
        /\ DOMAIN robotsTxt.groups = {}
        /\ pc = "called" /\ res.op = "IsAllowed" /\ res.err = "nil" => res.result = TRUE
        /\ pc = "called" /\ res.op = "CrawlDelay" => res.result = DurationZero

\* C4 witness: a text that disallows /x and sets a delay before any
\* User-agent line, and a call of IsAllowed on /x
C4_Witness ==
    /\ pc = "called" /\ res.op = "IsAllowed" /\ res.err = "nil"
    /\ res.urlStr = URLx /\ res.userAgent = AgentStar
    /\ \A i \in 1..Len(lines) : ~IsUserAgentLine(lines[i])
    /\ \E i \in 1..Len(lines) : lines[i] = LineDisallowX
    /\ \E i \in 1..Len(lines) : lines[i] = LineCrawlDelay1
    /\ res.result = TRUE

\* the normal form of a user-agent as the claim words it: cut at the first
\* slash, trim, lowercase
ClaimedNormalForm(ua) ==
    LET i == Index(ua, <<"/">>)
    IN  ToLower(TrimSpace(IF i = 0 THEN ua ELSE SubSeq(ua, 1, i - 1)))

\* C8: two user-agent strings with the same normal form get identical
\* answers from IsAllowed and CrawlDelay, and the rule set declared by a
\* User-agent line that was given a directive is the one a query in any
\* spelling of the same normal form reads.
C8_SameNormalFormSameAnswer ==
    pc = "parsed" =>
        /\ \A ua1, ua2 \in SpecAgents :
              ua1 # ua2 /\ ClaimedNormalForm(ua1) = ClaimedNormalForm(ua2) =>
                  /\ \A u \in SpecURLs :
                        IsAllowed(robotsTxt, ua1, u) = IsAllowed(robotsTxt, ua2, u)
                  /\ CrawlDelay(robotsTxt, ua1) = CrawlDelay(robotsTxt, ua2)
        /\ \A i \in 1..(Len(lines) - 1) :
              /\ IsUserAgentLine(lines[i])
              /\ HasColon(lines[i + 1])
              /\ LineKey(lines[i + 1]) \in {KeyAllow, KeyDisallow, KeyCrawlDelay}
              => \A ua \in SpecAgents :
                    ClaimedNormalForm(ua) = ClaimedNormalForm(LineValue(lines[i])) =>
                        /\ ClaimedNormalForm(ua) \in DOMAIN robotsTxt.groups
                        /\ CrawlDelay(robotsTxt, ua) =
                              robotsTxt.groups[ClaimedNormalForm(ua)].crawlDelay

\* C8 witness: the group is declared as "A/1.0", "*" has no rule set, and the
\* call for "A /2" is refused /x by the rule of that group
C8_Witness ==
    /\ pc = "called" /\ res.op = "IsAllowed" /\ res.err = "nil"
    /\ res.userAgent = AgentA2 /\ res.urlStr = URLx
    /\ \E i \in 1..Len(lines) : lines[i] = LineAgentA
    /\ <<"*">> \notin DOMAIN robotsTxt.groups
    /\ res.result = FALSE

\* the lines h[from..to] that hold a colon and are no User-agent line
BreaksBetween(h, from, to) ==
    {m \in from..to : HasColon(h[m]) /\ ~IsUserAgentLine(h[m])}

\* is line q of h a User-agent line of the run that ends with the last
\* User-agent line of h, a run being broken by any line that holds a colon
\* and is no User-agent line
InLastRun(h, q) ==
    LET uaLines == {m \in 1..Len(h) : IsUserAgentLine(h[m])}
        last == IF uaLines = {} THEN 0 ELSE CHOOSE m \in uaLines : \A n \in uaLines : n <= m
    IN  IsUserAgentLine(h[q]) /\ q <= last /\ BreaksBetween(h, q, last) = {}

RECURSIVE CollectRun(_, _)
CollectRun(h, q) ==
    IF q > Len(h) THEN <<>>
    ELSE (IF InLastRun(h, q) THEN <<ClaimedNormalForm(LineValue(h[q]))>> ELSE <<>>)
         \o CollectRun(h, q + 1)

\* the active group after the lines h, read off the text
C5_ActiveGroup(h) == CollectRun(h, 1)

\* how often agent k stands in the sequence
CountIn(seq, k) == Cardinality({i \in 1..Len(seq) : seq[i] = k})

\* the rule a path directive makes
RuleOf(val, allowed) ==
    addPathRule(NoRobots, <<"*">>, val, allowed).groups[<<"*">>].rules

RECURSIVE Repeat(_, _)
Repeat(seq, n) == IF n = 0 THEN <<>> ELSE seq \o Repeat(seq, n - 1)

\* the rules agent k is owed by the lines h: those of every path directive
\* that stands while k is in the active group
RECURSIVE C5_RulesOwed(_, _, _)
C5_RulesOwed(h, j, k) ==
    IF j > Len(h) THEN <<>>
    ELSE (IF IsDirective(h[j], KeyAllow) \/ IsDirective(h[j], KeyDisallow)
          THEN Repeat(RuleOf(LineValue(h[j]), IsDirective(h[j], KeyAllow)),
                      CountIn(C5_ActiveGroup(SubSeq(h, 1, j - 1)), k))
          ELSE <<>>)
         \o C5_RulesOwed(h, j + 1, k)

\* the Crawl-delay directives with a number as value that stand while k is
\* in the active group
C5_DelayLines(h, k) ==
    {j \in 1..Len(h) : /\ IsDirective(h[j], KeyCrawlDelay)
                       /\ ~parseDelay(LineValue(h[j])).err
                       /\ CountIn(C5_ActiveGroup(SubSeq(h, 1, j - 1)), k) > 0}

\* the agents some Allow, Disallow or Crawl-delay directive was applied to
C5_AgentsServed(h) ==
    {k \in UNION {{C5_ActiveGroup(SubSeq(h, 1, j - 1))[i] :
                     i \in 1..Len(C5_ActiveGroup(SubSeq(h, 1, j - 1)))} : j \in 1..Len(h)} :
        \E j \in 1..Len(h) :
            /\ \/ IsDirective(h[j], KeyAllow)
               \/ IsDirective(h[j], KeyDisallow)
               \/ IsDirective(h[j], KeyCrawlDelay)
            /\ CountIn(C5_ActiveGroup(SubSeq(h, 1, j - 1)), k) > 0}

\* C5: consecutive User-agent lines build one active group, a User-agent line
\* after any other directive starts a new one, and every Allow, Disallow and
\* Crawl-delay directive goes to exactly the agents of the group active where
\* it stands: after any number of lines the active list, the agents that have
\* a rule set, their rules and their delays are the ones read off the text.
C5_DirectivesGoToTheActiveGroup ==
    pc \in {"lines", "parsed"} =>
        /\ userAgents = C5_ActiveGroup(Handled)
        /\ DOMAIN robotsTxt.groups = C5_AgentsServed(Handled)
        /\ \A k \in DOMAIN robotsTxt.groups :
              /\ robotsTxt.groups[k].rules = C5_RulesOwed(Handled, 1, k)
              /\ robotsTxt.groups[k].crawlDelay =
                    IF C5_DelayLines(Handled, k) = {} THEN DurationZero
                    ELSE parseDelay(LineValue(Handled[
                            CHOOSE j \in C5_DelayLines(Handled, k) :
                                \A m \in C5_DelayLines(Handled, k) : m <= j])).nanos

\* the duration of one second
OneSecond == <<"1","0","0","0","0","0","0","0","0","0">>

\* C5 witness: agent a, a rule, then agent b and a delay: a keeps the rule
\* and gets no delay, b gets the delay and no rule
C5_Witness ==
    /\ pc = "parsed"
    /\ lines = <<LineGroupA, LineDisallowX, LineGroupB, LineCrawlDelay1>>
    /\ userAgents = <<AgentB>>
    /\ Len(robotsTxt.groups[AgentA].rules) = 1
    /\ robotsTxt.groups[AgentA].crawlDelay = DurationZero
    /\ robotsTxt.groups[AgentB].rules = <<>>
    /\ robotsTxt.groups[AgentB].crawlDelay = OneSecond

-----------------------------------------------------------------------------
(* SpecEngine: one group, of "*", whose rules are literal paths of two      *)
(* lengths and patterns, each allowed or disallowed, in every order         *)

LineAllowA == <<"A","l","l","o","w",":"," ","/","a">>
LineDisallowA == <<"D","i","s","a","l","l","o","w",":"," ","/","a">>
LineAllowAB == <<"A","l","l","o","w",":"," ","/","a","/","b">>
LineDisallowAB == <<"D","i","s","a","l","l","o","w",":"," ","/","a","/","b">>
LineAllowStarB == <<"A","l","l","o","w",":"," ","/","*","b">>
LineDisallowStarB == <<"D","i","s","a","l","l","o","w",":"," ","/","*","b">>
LineAllowAEnd == <<"A","l","l","o","w",":"," ","/","a","$">>
LineDisallowAEnd == <<"D","i","s","a","l","l","o","w",":"," ","/","a","$">>
URLa == <<"h","t","t","p",":","/","/","h","/","a">>
URLab == <<"h","t","t","p",":","/","/","h","/","a","/","b">>
URLc == <<"h","t","t","p",":","/","/","h","/","c">>
URLacb == <<"h","t","t","p",":","/","/","h","/","a","/","c","b">>

MaxRules == 3
EngineRuleLines == {LineAllowA, LineDisallowA, LineAllowAB, LineDisallowAB,
                    LineAllowStarB, LineDisallowStarB, LineAllowAEnd, LineDisallowAEnd}
EngineURLs == {URLa, URLab, URLc, URLacb}

\* the texts: the user-agent line of "*" and at most MaxRules rule lines
EngineTexts ==
    {JoinWith(<<LineAgentStar>> \o ls, "\n") :
        ls \in UNION {[1..k -> EngineRuleLines] : k \in 0..MaxRules}}

InitEngine == InitWith(EngineTexts, {BaseURL})

NextEngine ==
    \/ ParseBegin
    \/ ParseLine
    \/ ParseReturn
    \/ \E u \in EngineURLs : CallIsAllowed(AgentC, u)

SpecEngine == InitEngine /\ [][NextEngine]_vars

\* the rules the query of the last call is answered from
AnsweringRules ==
    IF selectGroup(robotsTxt, res.userAgent).ok
    THEN selectGroup(robotsTxt, res.userAgent).group.rules
    ELSE <<>>

\* the pattern rules that match the path, by their place in the list
MatchingPatterns(rules, path) ==
    {i \in 1..Len(rules) : ~rules[i].pattern.nil /\ MatchString(rules[i].pattern.prog, path)}

\* the literal rules whose path is a prefix of the path
MatchingLiterals(rules, path) ==
    {i \in 1..Len(rules) : rules[i].pattern.nil /\ HasPrefix(path, rules[i].path)}

\* of a set of literal rules the longest, and of the longest the last
LongestLast(rules, among) ==
    CHOOSE i \in among : \A j \in among :
        \/ Len(rules[j].path) < Len(rules[i].path)
        \/ Len(rules[j].path) = Len(rules[i].path) /\ j <= i

\* the least of a set of places
First(places) == CHOOSE i \in places : \A j \in places : i <= j

\* the last call was an IsAllowed that was answered from the rules
Answered == pc = "called" /\ res.op = "IsAllowed" /\ res.err = "nil"

\* C1: when no pattern rule matches the request path, the answer is the
\* permission of the literal rule whose path is the longest prefix of the
\* request path, of the later-declared one when several are equally long, and
\* allowed when no rule matches at all.
C1_LongestLiteralPrefixDecides ==
    Answered /\ MatchingPatterns(AnsweringRules, CalledPath) = {} =>
        IF MatchingLiterals(AnsweringRules, CalledPath) = {}
        THEN res.result = TRUE
        ELSE res.result =
                AnsweringRules[LongestLast(AnsweringRules,
                                           MatchingLiterals(AnsweringRules, CalledPath))].isAllowed

\* two equally long matching literal rules of opposite permissions, then a
\* shorter matching one that disagrees with the later of the two; no pattern
\* matches and the later of the two decided
C1_Witness ==
    /\ Answered
    /\ MatchingPatterns(AnsweringRules, CalledPath) = {}
    /\ \E i, j, k \in MatchingLiterals(AnsweringRules, CalledPath) :
          /\ i < j /\ j < k
          /\ AnsweringRules[i].path = AnsweringRules[j].path
          /\ AnsweringRules[i].isAllowed # AnsweringRules[j].isAllowed
          /\ Len(AnsweringRules[k].path) < Len(AnsweringRules[j].path)
          /\ AnsweringRules[k].isAllowed # AnsweringRules[j].isAllowed
          /\ res.result = AnsweringRules[j].isAllowed

\* C2: when a pattern rule matches the request path, the answer is the
\* permission of the first matching pattern rule in file order, whatever
\* literal rules match and wherever they stand.
C2_FirstMatchingPatternDecides ==
    Answered /\ MatchingPatterns(AnsweringRules, CalledPath) # {} =>
        res.result = AnsweringRules[First(MatchingPatterns(AnsweringRules, CalledPath))].isAllowed

\* a matching pattern stands between a shorter matching literal before it and
\* a longer matching literal after it, both of the opposite permission, and
\* the pattern decided
C2_Witness ==
    /\ Answered
    /\ \E i, k \in MatchingLiterals(AnsweringRules, CalledPath) :
       \E j \in MatchingPatterns(AnsweringRules, CalledPath) :
          /\ i < j /\ j < k
          /\ j = First(MatchingPatterns(AnsweringRules, CalledPath))
          /\ Len(AnsweringRules[i].path) < Len(AnsweringRules[k].path)
          /\ AnsweringRules[i].isAllowed # AnsweringRules[j].isAllowed
          /\ AnsweringRules[k].isAllowed # AnsweringRules[j].isAllowed
          /\ res.result = AnsweringRules[j].isAllowed

-----------------------------------------------------------------------------
(* SpecOrigin: base URLs and queried URLs made of a scheme, a host and a    *)
(* path, the schemes and hosts in several spellings, over a short text      *)

SchemeHttp == <<"h","t","t","p">>
SchemeHTTP == <<"H","T","T","P">>
SchemeHttps == <<"h","t","t","p","s">>
HostUnicode == <<"h",".","\\xC3","\\xBC">>
HostPunycode == <<"h",".","x","n","-","-","t","d","a">>
HostUpper == <<"H",".","\\xC3","\\x9C">>
HostOther == <<"g",".","\\xC3","\\xBC">>
PathRobots == <<"/","r","o","b","o","t","s",".","t","x","t">>
PathX == <<"/","x">>
PathY == <<"/","y">>

\* the URL string of a scheme, a host and a path
MakeURL(scheme, host, path) == scheme \o <<":", "/", "/">> \o host \o path

MaxOriginLines == 2
OriginBases == [scheme : {SchemeHttp, SchemeHTTP}, host : {HostUnicode, HostPunycode, HostUpper},
                path : {PathRobots}]
OriginQueries == [scheme : {SchemeHttp, SchemeHTTP, SchemeHttps},
                  host : {HostUnicode, HostPunycode, HostUpper, HostOther},
                  path : {PathX, PathY}]

InitOrigin ==
    InitWith(TextsOf({LineAgentStar, LineDisallowX}, MaxOriginLines),
             {MakeURL(b.scheme, b.host, b.path) : b \in OriginBases})

NextOrigin ==
    \/ ParseBegin
    \/ ParseLine
    \/ ParseReturn
    \/ \E q \in OriginQueries : CallIsAllowed(AgentC, MakeURL(q.scheme, q.host, q.path))

SpecOrigin == InitOrigin /\ [][NextOrigin]_vars

\* a host name in one spelling: lower case, its labels in ASCII form
CanonHost(host) == ToLower(ToASCII(ToLower(host)).str)

\* the same origin: the same scheme and the same host, whatever the letter
\* case and whichever of the Unicode and the punycode form is written
SameOrigin(a, b) ==
    ToLower(a.scheme) = ToLower(b.scheme) /\ CanonHost(a.host) = CanonHost(b.host)

\* the base URL Parse was given and the URL the last call was given, as
\* scheme, host and path
BaseOf == CHOOSE b \in OriginBases : urlStr = MakeURL(b.scheme, b.host, b.path)
QueryOf == CHOOSE q \in OriginQueries : res.urlStr = MakeURL(q.scheme, q.host, q.path)

\* the last call was an IsAllowed on the parsed value
AskedOrigin == pc = "called" /\ res.op = "IsAllowed"

\* C6: a queried URL of another origin than the base URL (another scheme or
\* another host) is refused with InvalidHostError and result false, whatever
\* rules were parsed.
C6_OtherOriginIsRefused ==
    AskedOrigin /\ ~SameOrigin(QueryOf, BaseOf) =>
        res.err = "InvalidHostError" /\ res.result = FALSE

\* a URL of the base's scheme and of another host was refused although no
\* rule of the parsed text disallows its path
C6_Witness ==
    /\ AskedOrigin
    /\ ToLower(QueryOf.scheme) = ToLower(BaseOf.scheme)
    /\ QueryOf.host = HostOther
    /\ QueryOf.path = PathY
    /\ <<"*">> \in DOMAIN robotsTxt.groups
    /\ res.err = "InvalidHostError"
    /\ res.result = FALSE

\* C7: a queried URL whose scheme and host equal the base URL's up to letter
\* case or up to the Unicode or punycode form of the host is answered without
\* error, with the permission the base URL's own spelling of the host gets.
C7_SameOriginIsAccepted ==
    AskedOrigin /\ SameOrigin(QueryOf, BaseOf) =>
        /\ res.err = "nil"
        /\ res.result = IsAllowed(robotsTxt, res.userAgent,
                                  MakeURL(BaseOf.scheme, BaseOf.host, QueryOf.path)).result

-----------------------------------------------------------------------------
(* SpecPattern: one Disallow rule of the group of "*", its path a slash and *)
(* a few parts: a letter, the wildcard, the dollar sign, the escapes of the *)
(* asterisk and of the dollar sign, a malformed escape; the queried paths a *)
(* slash and a few parts as well                                            *)

PartA == <<"a">>
PartStar == <<"*">>
PartDollar == <<"$">>
Part2A == <<"%","2","A">>
Part24 == <<"%","2","4">>
PartBad == <<"%","Z">>
PartBadEscaped == <<"%","2","5","Z">>
DisallowColon == <<"D","i","s","a","l","l","o","w",":"," ">>
Slash == <<"/">>
OriginH == <<"h","t","t","p",":","/","/","h">>

MaxParts == 3
MaxRequestParts == 2
RuleParts == {PartA, PartStar, PartDollar, Part2A, Part24, PartBad}
RequestParts == {PartA, PartStar, PartDollar, PartBadEscaped}

\* the sequences of at most n members of a set
SeqsUpTo(S, n) == UNION {[1..k -> S] : k \in 0..n}

RECURSIVE Concat(_)
Concat(parts) == IF parts = <<>> THEN <<>> ELSE parts[1] \o Concat(Tail(parts))

\* the text of the rule and the queried URL made of the parts
PatternText(parts) == JoinWith(<<LineAgentStar, DisallowColon \o Slash \o Concat(parts)>>, "\n")
RequestURL(parts) == OriginH \o Slash \o Concat(parts)

InitPattern ==
    InitWith({PatternText(ps) : ps \in SeqsUpTo(RuleParts, MaxParts)}, {BaseURL})

NextPattern ==
    \/ ParseBegin
    \/ ParseLine
    \/ ParseReturn
    \/ \E qs \in SeqsUpTo(RequestParts, MaxRequestParts) : CallIsAllowed(AgentC, RequestURL(qs))

SpecPattern == InitPattern /\ [][NextPattern]_vars

\* the parts a path is written with
RECURSIVE PartsIn(_)
PartsIn(s) ==
    IF s = <<>> THEN <<>>
    ELSE IF HasPrefix(s, Part2A) THEN <<Part2A>> \o PartsIn(SubSeq(s, 4, Len(s)))
    ELSE IF HasPrefix(s, Part24) THEN <<Part24>> \o PartsIn(SubSeq(s, 4, Len(s)))
    ELSE IF HasPrefix(s, PartBadEscaped) THEN <<PartBadEscaped>> \o PartsIn(SubSeq(s, 5, Len(s)))
    ELSE IF HasPrefix(s, PartBad) THEN <<PartBad>> \o PartsIn(SubSeq(s, 3, Len(s)))
    ELSE <<<<s[1]>>>> \o PartsIn(Tail(s))

\* the parts the rule of the text and the queried path were made of
RulePartsOf == PartsIn(SubSeq(contents, Len(PatternText(<<>>)) + 1, Len(contents)))
RequestPartsOf == PartsIn(SubSeq(res.urlStr, Len(RequestURL(<<>>)) + 1, Len(res.urlStr)))

\* the characters of the queried path, the escape of a percent sign read
RequestChars(parts) ==
    Slash \o Concat([i \in 1..Len(parts) |->
                        IF parts[i] = PartBadEscaped THEN PartBad ELSE parts[i]])

\* What a rule path asks for, as the claims read it: the wildcard stands for
\* any run of characters, a dollar sign at the end for the end of the path,
\* the escapes of the asterisk and of the dollar sign for those characters,
\* everything else for itself.
Wild == "(any)"
Anchored(parts) == parts # <<>> /\ parts[Len(parts)] = PartDollar
Unanchored(parts) == IF Anchored(parts) THEN SubSeq(parts, 1, Len(parts) - 1) ELSE parts
AskedOf(part) ==
    IF part = PartStar THEN <<Wild>>
    ELSE IF part = Part2A THEN <<"*">>
    ELSE IF part = Part24 THEN <<"$">>
    ELSE part
Asked(parts) ==
    Slash \o Concat([i \in 1..Len(Unanchored(parts)) |-> AskedOf(Unanchored(parts)[i])])

\* does the path, from its start, hold what is asked for
RECURSIVE Holds(_, _, _)
Holds(asked, anchored, path) ==
    IF asked = <<>> THEN ~anchored \/ path = <<>>
    ELSE IF asked[1] = Wild
         THEN \E k \in 0..Len(path) :
                 Holds(Tail(asked), anchored, SubSeq(path, k + 1, Len(path)))
    ELSE path # <<>> /\ path[1] = asked[1] /\ Holds(Tail(asked), anchored, Tail(path))

\* the rule of the text applies to the queried path, as the claims read it
RuleApplies == Holds(Asked(RulePartsOf), Anchored(RulePartsOf), RequestChars(RequestPartsOf))

\* the parts of the rule are all of the given set
MadeOf(allowedParts) == \A i \in 1..Len(RulePartsOf) : RulePartsOf[i] \in allowedParts

\* the rule path ends in the given part
EndsIn(part) == RulePartsOf # <<>> /\ RulePartsOf[Len(RulePartsOf)] = part

\* C9: an escaped asterisk in the path of a rule, literal or pattern, matches
\* an asterisk at that place of the queried path and is never the wildcard:
\* the rule disallows exactly the queried paths it applies to when the escape
\* is read as the character.
C9_EscapedAsteriskIsTheCharacter ==
    /\ Answered
    /\ MadeOf({PartA, PartStar, Part2A})
    /\ \E i \in 1..Len(RulePartsOf) : RulePartsOf[i] = Part2A
    => res.result = ~RuleApplies

\* C10 as stated: a rule path ending in a dollar sign matches only queried
\* paths that end where the sign stands, and a rule path ending in the escape
\* of the dollar sign matches a dollar sign at that place with no such end.
C10_DollarAnchorsEscapeDoesNot ==
    /\ Answered
    /\ MadeOf({PartA, PartStar, PartDollar, Part24, PartBad})
    /\ EndsIn(PartDollar) \/ EndsIn(Part24)
    => res.result = ~RuleApplies

\* C10, for the rule paths whose escapes are all well formed: a rule path
\* ending in a dollar sign matches only queried paths that end where the sign
\* stands, and a rule path ending in the escape of the dollar sign matches a
\* dollar sign at that place with no such end.
C10_DollarAnchorsEscapeDoesNot_WellFormed ==
    /\ Answered
    /\ MadeOf({PartA, PartStar, PartDollar, Part24})
    /\ EndsIn(PartDollar) \/ EndsIn(Part24)
    => res.result = ~RuleApplies

\* a rule path of a wildcard and the escape of the dollar sign disallowed a
\* queried path that goes on after its dollar sign
C10_Witness ==
    /\ Answered
    /\ RulePartsOf = <<PartStar, Part24>>
    /\ RequestPartsOf = <<PartDollar, PartA>>
    /\ res.result = FALSE

-----------------------------------------------------------------------------
(* SpecDelay: the groups of "a" and of "*" and Crawl-delay directives whose *)
(* values are a whole number, a fraction, a negative number, a number of    *)
(* seconds no duration holds, digits with a letter after them and nothing   *)

LineCrawlDelayHalf == <<"C","r","a","w","l","-","d","e","l","a","y",":"," ","0",".","5">>
LineCrawlDelayBad == <<"C","r","a","w","l","-","d","e","l","a","y",":"," ","1","0","a">>
LineCrawlDelayBlank == <<"C","r","a","w","l","-","d","e","l","a","y",":">>
LineCrawlDelayNeg == <<"C","r","a","w","l","-","d","e","l","a","y",":"," ","-","1">>
LineCrawlDelayHuge == <<"C","r","a","w","l","-","d","e","l","a","y",":"," ","1","e","1","0">>

MaxDelayLines == 4
DelayLines == {LineGroupA, LineAgentStar, LineCrawlDelay1, LineCrawlDelayHalf,
               LineCrawlDelayBad, LineCrawlDelayBlank, LineCrawlDelayNeg,
               LineCrawlDelayHuge}
DelayAgents == {AgentA, AgentC, AgentStar}

InitDelay == InitWith(TextsOf(DelayLines, MaxDelayLines), {BaseURL})

NextDelay ==
    \/ ParseBegin
    \/ ParseLine
    \/ ParseReturn
    \/ \E ua \in DelayAgents : CallCrawlDelay(ua)

SpecDelay == InitDelay /\ [][NextDelay]_vars

HalfSecond == <<"5","0","0","0","0","0","0","0","0">>
MinusOneSecond == <<"-","1","0","0","0","0","0","0","0","0","0">>

\* what the values of the Crawl-delay lines say: the duration, or that the
\* value is no number
SaidDelay(line) ==
    IF line = LineCrawlDelay1 THEN [number |-> TRUE, nanos |-> OneSecond]
    ELSE IF line = LineCrawlDelayHalf THEN [number |-> TRUE, nanos |-> HalfSecond]
    ELSE IF line = LineCrawlDelayNeg THEN [number |-> TRUE, nanos |-> MinusOneSecond]
    ELSE IF line = LineCrawlDelayHuge THEN [number |-> TRUE, nanos |-> ProductAbove]
    ELSE [number |-> FALSE, nanos |-> DurationZero]

\* the Crawl-delay lines of h that stand while k is in the active group
DelayLinesOf(h, k) ==
    {j \in 1..Len(h) : /\ IsDirective(h[j], KeyCrawlDelay)
                       /\ CountIn(C5_ActiveGroup(SubSeq(h, 1, j - 1)), k) > 0}

\* the delay the lines h leave agent k with: the number of the last of its
\* Crawl-delay lines whose value is a number, 0 when there is none
LastNumber(h, among) ==
    IF {j \in among : SaidDelay(h[j]).number} = {} THEN DurationZero
    ELSE SaidDelay(h[CHOOSE j \in among :
                        /\ SaidDelay(h[j]).number
                        /\ \A m \in among : SaidDelay(h[m]).number => m <= j]).nanos

\* C11: a Crawl-delay directive whose value is no number changes no delay:
\* after any number of lines the delay of every rule set is the number of the
\* last Crawl-delay directive with a number as value that was applied to it,
\* 0 when there was none, and CrawlDelay answers an agent that has a rule set
\* with that delay.
C11_InvalidDelayChangesNothing ==
    /\ pc \in {"lines", "parsed", "called"} =>
          \A k \in DOMAIN robotsTxt.groups :
              robotsTxt.groups[k].crawlDelay = LastNumber(Handled, DelayLinesOf(Handled, k))
    /\ pc = "called" /\ res.op = "CrawlDelay"
          /\ normaliseUserAgent(res.userAgent) \in DOMAIN robotsTxt.groups =>
          res.result \in DurationOutcomes(
              LastNumber(lines, DelayLinesOf(lines, normaliseUserAgent(res.userAgent))))

\* agent a was given half a second, then digits with a letter and then
\* nothing as delay, and CrawlDelay answers half a second
C11_Witness ==
    /\ pc = "called" /\ res.op = "CrawlDelay" /\ res.userAgent = AgentA
    /\ lines = <<LineGroupA, LineCrawlDelayHalf, LineCrawlDelayBad, LineCrawlDelayBlank>>
    /\ res.result = HalfSecond

\* a duration below 0
IsNegative(d) == d[1] = "-"

\* C12: delays are never negative: no rule set holds a negative delay and
\* CrawlDelay never answers a negative duration.
C12_DelaysAreNeverNegative ==
    /\ pc \in {"lines", "parsed", "called"} =>
          \A k \in DOMAIN robotsTxt.groups :
              \A d \in DurationOutcomes(robotsTxt.groups[k].crawlDelay) : ~IsNegative(d)
    /\ pc = "called" /\ res.op = "CrawlDelay" => ~IsNegative(res.result)

-----------------------------------------------------------------------------
(* SpecGlobal: Host and Sitemap directives with plain, padded and blank     *)
(* values, before, between and after the lines of a group                   *)

LineHost1 == <<"H","o","s","t",":"," ","h","1">>
LineHostPadded == <<" ","H","O","S","T"," ",":"," "," ","h","2"," ">>
LineHostBlank == <<"H","o","s","t",":">>
LineSitemapURL == <<"s","i","t","e","m","a","p",":"," ","h","t","t","p",":","/","/","h","/","t"," ">>
LineSitemapBlank == <<"S","i","t","e","m","a","p",":"," ">>
ValueH1 == <<"h","1">>
ValueH2 == <<"h","2">>
ValueS == <<"s">>
ValueURL == <<"h","t","t","p",":","/","/","h","/","t">>

MaxGlobalLines == 4
GlobalLines == {LineHost1, LineHostPadded, LineHostBlank, LineSitemapS, LineSitemapURL,
                LineSitemapBlank, LineAgentStar, LineDisallowX}

InitGlobal == InitWith(TextsOf(GlobalLines, MaxGlobalLines), {BaseURL})

NextGlobal ==
    \/ ParseBegin
    \/ ParseLine
    \/ ParseReturn
    \/ CallHost
    \/ CallSitemaps

SpecGlobal == InitGlobal /\ [][NextGlobal]_vars

\* what the Host and Sitemap lines say: the directive and its trimmed value
SaidGlobal(line) ==
    IF line = LineHost1 THEN [key |-> "host", value |-> ValueH1]
    ELSE IF line = LineHostPadded THEN [key |-> "host", value |-> ValueH2]
    ELSE IF line = LineHostBlank THEN [key |-> "host", value |-> <<>>]
    ELSE IF line = LineSitemapS THEN [key |-> "sitemap", value |-> ValueS]
    ELSE IF line = LineSitemapURL THEN [key |-> "sitemap", value |-> ValueURL]
    ELSE IF line = LineSitemapBlank THEN [key |-> "sitemap", value |-> <<>>]
    ELSE [key |-> "other", value |-> <<>>]

\* the lines of h that are the given directive with a value that is not empty
Valued(h, key) ==
    {j \in 1..Len(h) : SaidGlobal(h[j]).key = key /\ SaidGlobal(h[j]).value # <<>>}

\* the value of the last Host line of h that has one, else the empty string
SaidHost(h) ==
    IF Valued(h, "host") = {} THEN <<>>
    ELSE SaidGlobal(h[CHOOSE j \in Valued(h, "host") :
                         \A m \in Valued(h, "host") : m <= j]).value

\* the values of the Sitemap lines of h that have one, in the order of h
RECURSIVE SaidSitemaps(_, _)
SaidSitemaps(h, j) ==
    IF j > Len(h) THEN <<>>
    ELSE (IF j \in Valued(h, "sitemap") THEN <<SaidGlobal(h[j]).value>> ELSE <<>>)
         \o SaidSitemaps(h, j + 1)

\* C13: Host returns the trimmed value of the last host directive with a
\* value that is not empty, wherever in the text it stands, and the empty
\* string when there is none; a host directive without value clears nothing.
C13_LastValuedHostWins ==
    /\ pc \in {"lines", "parsed", "called"} => robotsTxt.host = SaidHost(Handled)
    /\ pc = "called" /\ res.op = "Host" => res.result = SaidHost(lines)

\* a host line before a group, a padded one with the key in capitals after
\* it, then a blank one: Host answers the value of the padded one
C13_Witness ==
    /\ pc = "called" /\ res.op = "Host"
    /\ lines = <<LineHost1, LineAgentStar, LineHostPadded, LineHostBlank>>
    /\ res.result = ValueH2

\* C14: Sitemaps returns the trimmed values of all sitemap directives with a
\* value that is not empty, in file order, duplicates kept, unchanged,
\* wherever they stand, and nothing when there is none.
C14_SitemapsInFileOrder ==
    /\ pc \in {"lines", "parsed", "called"} => robotsTxt.sitemaps = SaidSitemaps(Handled, 1)
    /\ pc = "called" /\ res.op = "Sitemaps" => res.result = SaidSitemaps(lines, 1)

\* a sitemap before the first line of a group, a blank one and the same
\* sitemap again after it: Sitemaps answers the value twice
C14_Witness ==
    /\ pc = "called" /\ res.op = "Sitemaps"
    /\ lines = <<LineSitemapS, LineAgentStar, LineSitemapBlank, LineSitemapS>>
    /\ res.result = <<ValueS, ValueS>>

-----------------------------------------------------------------------------
(* SpecIgnore: two groups, a rule and a delay, among lines without a colon, *)
(* comments with and without a colon and a line with an empty key           *)

LineCommentColon == <<"#"," ","c",":"," ","d">>
LineEmptyKey == <<" ",":"," ","x">>
LineNoColon == <<"j","u","n","k">>

MaxIgnoreLines == 4
IgnoreLines == {LineGroupA, LineGroupB, LineDisallowX, LineCrawlDelay1, LineComment,
                LineCommentColon, LineEmptyKey, LineNoColon}

InitIgnore == InitWith(TextsOf(IgnoreLines, MaxIgnoreLines), {BaseURL})

NextIgnore ==
    \/ ParseBegin
    \/ ParseLine
    \/ ParseReturn
    \/ \E ua \in GroupAgents : CallIsAllowed(ua, URLx)
    \/ \E ua \in GroupAgents : CallCrawlDelay(ua)
    \/ CallSitemaps
    \/ CallHost

SpecIgnore == InitIgnore /\ [][NextIgnore]_vars

\* the loop of Parse over the lines ls from line j on
RECURSIVE parseLines(_, _, _)
parseLines(ls, j, st) ==
    IF j > Len(ls) THEN st.robotsTxt
    ELSE parseLines(ls, j + 1,
                    parseLine(ls[j], st.userAgents, st.isNoneUserAgentState, st.robotsTxt))

\* the value Parse returns for the lines ls and the base URL of robotsTxt
Parsed(ls) ==
    parseLines(ls, 1, [userAgents |-> InitialUserAgents, isNoneUserAgentState |-> FALSE,
                       robotsTxt |-> [NoRobots EXCEPT !.url = robotsTxt.url]])

\* a line the claim has ignored: no colon, an empty key, or a comment
Ignorable(line) ==
    \/ ~Contains(line, ":")
    \/ TrimSpace(CutBefore(line, ":")) = <<>>
    \/ HasPrefix(TrimSpace(line), <<"#">>)

\* the lines without the ignorable ones
RECURSIVE WithoutIgnorable(_)
WithoutIgnorable(ls) ==
    IF ls = <<>> THEN <<>>
    ELSE (IF Ignorable(ls[1]) THEN <<>> ELSE <<ls[1]>>) \o WithoutIgnorable(Tail(ls))

\* the answers the method of the last call can give on the value r
AnswerOn(r) ==
    IF res.op = "IsAllowed" THEN {IsAllowed(r, res.userAgent, res.urlStr).result}
    ELSE IF res.op = "CrawlDelay" THEN DurationOutcomes(CrawlDelay(r, res.userAgent))
    ELSE IF res.op = "Sitemaps" THEN {Sitemaps(r)}
    ELSE {Host(r)}

\* C15: ignored lines leave the parse untouched: every query gets the answer
\* it gets from the text without its lines that have no colon, an empty key
\* or a leading number sign.
C15_IgnoredLinesChangeNothing ==
    pc = "called" => res.result \in AnswerOn(Parsed(WithoutIgnorable(lines)))

-----------------------------------------------------------------------------
(* SpecEmptyAgent: a User-agent line without value, a rule and a delay, and *)
(* queries for named agents, for the empty string and for a version alone   *)

LineAgentEmpty == <<"U","s","e","r","-","a","g","e","n","t",":">>
AgentVersionOnly == <<" ","/","1",".","0">>
AgentEmpty == <<>>

MaxEmptyAgentLines == 3
EmptyAgentLines == {LineAgentEmpty, LineDisallowX, LineCrawlDelay1}
EmptyAgentAgents == {AgentA, AgentStar, AgentEmpty, AgentVersionOnly}

InitEmptyAgent == InitWith(TextsOf(EmptyAgentLines, MaxEmptyAgentLines), {BaseURL})

NextEmptyAgent ==
    \/ ParseBegin
    \/ ParseLine
    \/ ParseReturn
    \/ \E ua \in EmptyAgentAgents, u \in {URLx, URLy} : CallIsAllowed(ua, u)

SpecEmptyAgent == InitEmptyAgent /\ [][NextEmptyAgent]_vars

\* C16: the rules of a group declared only by a User-agent line without a
\* value restrict no query: in a text whose User-agent lines all have an
\* empty value IsAllowed answers true for every path and every queried
\* user-agent string.
C16_EmptyAgentGroupRestrictsNothing ==
    /\ pc = "called" /\ res.op = "IsAllowed" /\ res.err = "nil"
    /\ \A i \in 1..Len(lines) : IsUserAgentLine(lines[i]) => lines[i] = LineAgentEmpty
    => res.result = TRUE

-----------------------------------------------------------------------------
(* SpecBase: Parse with base URLs that parse and base URLs that do not,    *)
(* over texts of directives ridden with colons, unknown keys, lines        *)
(* without a colon and values that are no number or no pattern             *)

BaseNoScheme == <<":","/","x">>
BaseSpaceInHost == <<"h","t","t","p",":","/","/","h"," ","h","/","r","o","b","o","t","s",".","t","x","t">>
BaseBadPort == <<"h","t","t","p",":","/","/","h",":","x","/","r","o","b","o","t","s",".","t","x","t">>
BaseBadEscape == <<"h","t","t","p",":","/","/","h","/","%","z","z">>
BaseRelative == <<"/","r","o","b","o","t","s",".","t","x","t">>
BaseControl == <<"h","t","t","p",":","/","/","a","\\x7F","b","/","x">>
BaseBadFragment == <<"h","t","t","p",":","/","/","h","/","x","#","%","z","z">>
BaseOpenBracket == <<"h","t","t","p",":","/","/","[",":",":","1","/","x">>
BaseBadPunycode == <<"h","t","t","p",":","/","/","x","n","-","-","0","/","x">>
BaseBracket == <<"h","t","t","p",":","/","/","[",":",":","1","]","/","x">>
BaseTabFragment == <<"h","t","t","p",":","/","/","h","/","x","#","\t">>
LineColonsAgent == <<"u","s","e","r","-","a","g","e","n","t",":",":",":",":"," ","a",":",":">>
LineColonsDelay == <<"c","r","a","w","l","-","d","e","l","a","y",":",":",":",":"," ","0",":">>
LineColonsDisallow == <<"d","i","s","a","l","l","o","w",":",":",":"," ","/",":">>
LineUnknownKey == <<"u","n","k","n","o","w","n",":"," ","x">>
LineBadPattern == <<"D","i","s","a","l","l","o","w",":"," ","/","%","Z","*">>

MaxBaseLines == 2
BaseLines == {LineColonsAgent, LineColonsDelay, LineColonsDisallow, LineUnknownKey,
              LineBadPattern, LineCrawlDelayBad, LineNoColon}
BaseURLs == {BaseURL, BaseRelative, BaseBracket, BaseTabFragment, BaseNoScheme,
             BaseSpaceInHost, BaseBadPort, BaseBadEscape, BaseControl, BaseBadFragment,
             BaseOpenBracket, BaseBadPunycode}

InitBase == InitWith(TextsOf(BaseLines, MaxBaseLines), BaseURLs)

NextBase ==
    \/ ParseBegin
    \/ ParseLine
    \/ ParseReturn
    \/ CallIsAllowed(AgentA, URLx)
    \/ CallCrawlDelay(AgentA)
    \/ CallSitemaps
    \/ CallHost

SpecBase == InitBase /\ [][NextBase]_vars

\* the base URLs of SpecBase that parseAndNormalizeURL refuses: no scheme
\* before the colon, a space in the host, a port that is no number, a
\* malformed escape in the path or in the fragment, a control character, a
\* bracket that is not closed, a label that is no Punycode
MalformedBases == {BaseNoScheme, BaseSpaceInHost, BaseBadPort, BaseBadEscape, BaseControl,
                   BaseBadFragment, BaseOpenBracket, BaseBadPunycode}

\* C17: Parse fails only because of the base URL: with a base URL that does
\* not parse it returns an error and no value, and with a base URL that
\* parses every step of Parse takes the next line or returns the value
\* built, so every line of every text is taken and a value is returned,
\* whatever the text holds.
C17_ParseFailsOnlyOnBaseURL ==
    /\ [](pc = "failed" <=> (pc # "start" /\ urlStr \in MalformedBases))
    /\ [](pc = "failed" => robotsTxt = NoRobots)
    /\ [](pc \in {"parsed", "called"} => ~robotsTxt.url.err /\ idx = Len(lines) + 1)
    /\ [][pc = "lines" => \/ pc' = "lines" /\ idx' = idx + 1 /\ robotsTxt'.url = robotsTxt.url
                          \/ pc' = "parsed" /\ robotsTxt' = robotsTxt]_vars

C17_Witness ==
    /\ pc = "parsed"
    /\ urlStr = BaseURL
    /\ lines = <<LineColonsAgent, LineBadPattern>>

-----------------------------------------------------------------------------
(* SpecOffset: one Disallow rule made of a letter, wildcards and dollar    *)
(* signs, and queried paths of several segments, so that what the rule     *)
(* asks for can occur in the path at its start or only further on          *)

MaxOffsetParts == 2
MaxOffsetRequestParts == 3
OffsetRuleParts == {PartA, PartStar, PartDollar}
OffsetRequestParts == {PartA, Slash}

InitOffset ==
    InitWith({PatternText(ps) : ps \in SeqsUpTo(OffsetRuleParts, MaxOffsetParts)}, {BaseURL})

NextOffset ==
    \/ ParseBegin
    \/ ParseLine
    \/ ParseReturn
    \/ \E qs \in SeqsUpTo(OffsetRequestParts, MaxOffsetRequestParts) :
          CallIsAllowed(AgentC, RequestURL(qs))

SpecOffset == InitOffset /\ [][NextOffset]_vars

\* the rule of the text is a pattern: it holds a wildcard or ends in a dollar sign
RuleIsPattern == Anchored(RulePartsOf) \/ \E i \in 1..Len(RulePartsOf) : RulePartsOf[i] = PartStar

\* C18: a pattern rule is matched from the first character of the queried
\* path: a pattern that does not begin with a wildcard applies only to the
\* paths that hold, from their start, what it asks for, never to a path in
\* which that occurs only further on; the single Disallow rule of the text
\* refuses exactly the paths it applies to.
C18_PatternMatchesFromTheStart ==
    /\ pc = "called" /\ res.op = "IsAllowed" /\ res.err = "nil"
    /\ RuleIsPattern
    => res.result = ~RuleApplies

-----------------------------------------------------------------------------
(* SpecBlank: groups whose path directives have a value or none            *)

LineDisallowBlank == <<"D","i","s","a","l","l","o","w",":">>

MaxBlankLines == 3
BlankLines == {LineGroupA, LineAgentStar, LineDisallowX, LineAllowBlank, LineDisallowBlank}

InitBlank == InitWith(TextsOf(BlankLines, MaxBlankLines), {BaseURL})

NextBlank ==
    \/ ParseBegin
    \/ ParseLine
    \/ ParseReturn
    \/ \E ua \in {AgentA, AgentC}, u \in {URLx, URLy} : CallIsAllowed(ua, u)

SpecBlank == InitBlank /\ [][NextBlank]_vars

\* the rule stands for a path directive without value
IsBlankRule(rule) == rule.pattern = NilPattern /\ rule.path = <<>>

NotBlankRule(rule) == ~IsBlankRule(rule)

\* the parsed value without the rules of the path directives without value
WithoutBlankRules(r) ==
    [r EXCEPT !.groups = [k \in DOMAIN r.groups |->
        [r.groups[k] EXCEPT !.rules = SelectSeq(@, NotBlankRule)]]]

\* C19: an Allow or Disallow directive without value creates the rule set of
\* each active agent and adds no rule to it: every agent a path directive
\* was applied to has a rule set, no rule set holds a rule of a directive
\* without value, and every answer of IsAllowed is the one the rules of the
\* directives with a value give.
C19_BlankPathDirectiveAddsNoRule ==
    /\ pc \in {"lines", "parsed", "called"} =>
          /\ DOMAIN robotsTxt.groups = C5_AgentsServed(Handled)
          /\ \A k \in DOMAIN robotsTxt.groups :
                \A i \in 1..Len(robotsTxt.groups[k].rules) :
                    ~IsBlankRule(robotsTxt.groups[k].rules[i])
    /\ pc = "called" /\ res.op = "IsAllowed" =>
          res.result \in AnswerOn(WithoutBlankRules(robotsTxt))

====
